---- MODULE Spec2Model ----
(***************************************************************************)
(* A model of gh-wrapped-cli: the REST flow of src/index.tsx over          *)
(* GitHubClient (src/github.ts), the Ink application GitHubWrappedApp over *)
(* GitHubGraphQLClient, the StatsDisplay slide show with its PNG export,   *)
(* the background browser installer and the file-based export worker.      *)
(*                                                                         *)
(* An error message is modelled by the substrings the code tests it for:   *)
(* a message is a record [id, text] where text is the set of the markers   *)
(* ("rate limit", "403", "Bad credentials", ...) that occur in it.         *)
(***************************************************************************)
EXTENDS Integers, Sequences, FiniteSets, TLC

(***************************************************************************)
(* Bounds of the model.                                                    *)
(***************************************************************************)
\* longest answer typed at the token prompt
MaxAnswerLen == 2
\* largest number of repositories on one page served by the API
MaxPageLen == 1
\* number of non-empty repository pages the API can serve
MaxEnvPages == 2
\* largest number of commits one repository lists
MaxRepoCommits == 1
\* calls of exportViaNodeWorker that can be under way at the same time
MaxExports == 2
\* days of the contribution calendar handed to StatsAnalyzer
MaxDays == 4
\* largest contribution count of a day
MaxCount == 1
\* languages in the statistics handed to calculateTopLanguages
MaxLanguages == 6
\* largest byte count of a language
MaxBytes == 2
\* commits handed to calculatePeakHour
MaxCommits == 3
\* largest star count of a repository
MaxStars == 2
\* accessor calls of fetches that are over whose answers are still awaited
MaxCancelled == 2
\* accessor calls of one GitHubGraphQLClient that await their answer together
MaxInFlight == 2

(***************************************************************************)
(* Messages and HTTP responses.                                            *)
(***************************************************************************)
NoMsg == [id |-> "none", text |-> {}]

\* err.message.includes(marker)
Includes(msg, marker) == marker \in msg.text

\* An answer of the API: status 200 with n items, or an HTTP error whose
\* message contains the markers of text.
Ok(n) == [status |-> 200, n |-> n, text |-> {}]
HttpError(code, text) == [status |-> code, n |-> 0, text |-> text]
BadCredentials == HttpError(401, {"Bad credentials"})
RateLimited == HttpError(403, {"rate limit"})
NotFound == HttpError(404, {})
ServerError == HttpError(500, {})

\* String.prototype.trim on a sequence of characters
RECURSIVE TrimLeft(_)
TrimLeft(s) == IF s # <<>> /\ Head(s) = " " THEN TrimLeft(Tail(s)) ELSE s
RECURSIVE TrimRight(_)
TrimRight(s) ==
  IF s # <<>> /\ s[Len(s)] = " " THEN TrimRight(SubSeq(s, 1, Len(s) - 1)) ELSE s
Trim(s) == TrimRight(TrimLeft(s))

(***************************************************************************)
(* State.  The first group is the REST flow of main (src/index.tsx).       *)
(***************************************************************************)
VARIABLES
  mainPc,         \* position of main: "username", "comparison", "fetch" (the
                  \* first fetchAllData), "prompt" (promptTokenWithRetry waits
                  \* for an answer), "retry" (fetchData(token) inside the
                  \* loop), "ui" (step 5), "exit"
  userHas403,     \* the username contains the characters 403
  wantComparison, \* answer to 'Compare with 2024 data?'
  token,          \* the token of the running fetchAllData, <<>> for none
  callIdx,        \* index in CallSeq of the client call in progress
  stage,          \* "single", "pages" or "perRepo": the request awaited
  page,           \* getRepositories: page requested
  nRepos,         \* getRepositories: repos collected so far
  repoIdx,        \* index of the repository whose listing is awaited
  nCommits,       \* getCommitsForYear: commits collected so far
  lastErr,        \* message of the error fetchAllData threw last
  result,         \* value main holds in result: [ok, token]
  exitCode,       \* argument of process.exit, -1 while running
  saw403,         \* history: a request of the first fetchAllData got a 403
  promptEntered,  \* history: promptTokenWithRetry was called
  fetchOutcome,   \* history: "none", or how the last fetchAllData ended
                  \* ("running", "ok", "failed")
  lastAnswer      \* history: the last answer typed at the token prompt, as
                  \* a set of at most one answer

restVars == <<mainPc, userHas403, wantComparison, token, callIdx, stage, page,
              nRepos, repoIdx, nCommits, lastErr, result, exitCode, saw403,
              promptEntered, fetchOutcome, lastAnswer>>

\* The second group is GitHubWrappedApp with its GitHubGraphQLClient.
VARIABLES
  phase,         \* appState.phase
  appToken,      \* appState.token, <<>> for undefined
  appError,      \* appState.error: "none" for undefined
  message,       \* appState.message
  loginHas403,   \* appState.username contains the characters 403
  selectedYear,  \* new Date().getFullYear() of the running fetchData
  effectRan,     \* the data fetching effect ran for the current dependencies
  appExited,     \* process.exit(0) was called (onSkip)
  clientToken,   \* token the GitHubGraphQLClient was constructed with
  statsCache,    \* keys (years) of the client's statsCache
  pending,       \* accessor calls of the client that await the GraphQL answer
  settled,       \* the Promise.all of fetchData is settled
  requests,      \* history: GraphQL requests the client has sent, per year
  lastResp,      \* history: the last GraphQL answer handled
  lastThrown,    \* history: the message getCompleteStats threw for it
  tokenTyped,    \* history: appState.token was typed into TokenInput
  fetchStarts,   \* history: the times fetchData was started since the phase
                 \* last became fetching_data
  cancelledCalls \* the accessor calls still awaiting their answer whose
                 \* fetch is over and its effect cleaned up (cancelled =
                 \* true), counted up to MaxCancelled

appVars == <<phase, appToken, appError, message, loginHas403, selectedYear,
             effectRan, appExited, clientToken, statsCache, pending, settled,
             requests, lastResp, lastThrown, tokenTyped, fetchStarts,
             cancelledCalls>>

clientVars == <<clientToken, statsCache, pending, settled, requests, lastResp, lastThrown>>

\* The third group is StatsDisplay with its PNG export tasks and the
\* BackgroundBrowserInstaller singleton the export uses.
VARIABLES
  mounted,        \* StatsDisplay is rendered
  hasComparison,  \* the comparisonStats prop is set
  currentSlide,   \* useState(0)
  actionTaken,    \* useState<string | null>(null), "none" for null
  showFarewell,   \* useState(false)
  isProcessing,   \* useState(false)
  exportStatus,   \* useState('')
  exportError,    \* useState<string | null>(null), "none" for null
  exportSuccess,  \* useState(false)
  exportTasks,    \* positions of the running export tasks (async blocks)
  uiExited,       \* onExit was called (process.exit(0))
  status,         \* BackgroundBrowserInstaller.status
  installPromise, \* BackgroundBrowserInstaller.installPromise: "null",
                  \* "pending" or "resolved"
  chromium,       \* Chromium on disk: "unknown" until first looked for,
                  \* then "present" or "absent"
  lastKey,        \* history: the key handled in the last step, else "none"
  lastShown,      \* history: what was displayed when lastKey was pressed
  lastEffect,     \* history: what the handler did for lastKey
  lastEvent,      \* history: "failed" / "succeeded" when an export task
                  \* ended and no key was pressed since, else "none"
  ensuredStatus   \* history: installer status when ensureReady last resolved

uiVars == <<mounted, hasComparison, currentSlide, actionTaken, showFarewell,
            isProcessing, exportStatus, exportError, exportSuccess, exportTasks,
            uiExited, status, installPromise, chromium, lastKey, lastShown,
            lastEffect, lastEvent, ensuredStatus>>

\* The fourth group is the worker-based export: Exporter.exportViaNodeWorker
\* in the parent process and export-worker.mjs in the Node process.  Each
\* call has its own temporary files and worker; all write the same image
\* path.  Everything but imageFile and imageBy is a function of the call.
VARIABLES
  format,         \* 'png' or 'svg'
  inputFile,      \* the temporary input file: "absent" or "complete"
  outputFile,     \* the temporary output file: "absent", "success",
                  \* "failure" or "truncated"
  imageFile,      \* the image at outputPath: "absent" or "written"
  imageBy,        \* history: the calls whose worker has written the image
  proc,           \* position of the worker process: "none" before the
                  \* spawn, at the end "exit 0", "exit 1" or "died"
  exportPromise,  \* "none", "pending", "resolved" or "rejected"
  settledWith,    \* what the promise was resolved or rejected with
  reportRead,     \* history: the output file as the parent parsed it
  inputAtSpawn    \* history: the input file when Bun.spawn was called

workerVars == <<format, inputFile, outputFile, imageFile, imageBy, proc,
                exportPromise, settledWith, reportRead, inputAtSpawn>>

\* The fifth group is StatsAnalyzer (src/analytics.ts) with calculateScore
\* and determineTier (src/github.ts): one call of one of their functions.
VARIABLES
  called,         \* the function that was called, "none" before the call
  args,           \* its arguments at the call, by name
  argsAfter,      \* its arguments (the same objects) at the return
  ret             \* what it returned, by the name of the statistic

analyticsVars == <<called, args, argsAfter, ret>>

\* The sixth group is one call of a method of GitHubClient (src/github.ts),
\* with the repositories and the commits it collects.
VARIABLES
  method,         \* the method called, "none" before the call
  clientPc,       \* "idle", "pages" (a listForUser request is awaited),
                  \* "perRepo" (a listCommits request is awaited), "returned"
                  \* or "threw"
  userRepos,      \* the number of public repositories of the user
  listPage,       \* getRepositories: page
  repoList,       \* getRepositories: repos; in the loop of
                  \* getCommitsForYear: recentRepos
  loopIdx,        \* index in recentRepos of the repository of the loop
  commitList,     \* getCommitsForYear: commits
  pageLog,        \* history: for each listForUser request in order, the
                  \* length of the page it was answered with, -1 for an error
  listed,         \* history: the listCommits requests in order, each with its
                  \* repository, the status and the number of commits answered
  clientError     \* the message of the error the method threw

restClientVars == <<method, clientPc, userRepos, listPage, repoList, loopIdx,
                    commitList, pageLog, listed, clientError>>

\* The seventh group is one GitHubGraphQLClient (src/github-graphql-fixed.ts)
\* whose accessors are called at any time.
VARIABLES
  gqlCache,       \* keys (years) of this.statsCache
  inFlight,       \* the accessor calls that await the GraphQL answer, each
                  \* with the year it passed to getCompleteStats
  succeeded,      \* history: the years a getCompleteStats call returned for
  lastCall        \* history: the year of the accessor call started last,
                  \* whether a call for that year had succeeded before, and
                  \* whether the call sent a request

gqlVars == <<gqlCache, inFlight, succeeded, lastCall>>

\* what the actions of one component leave unchanged
notRest == <<appVars, uiVars, workerVars, analyticsVars, restClientVars, gqlVars>>
notApp == <<restVars, uiVars, workerVars, analyticsVars, restClientVars, gqlVars>>
notUi == <<restVars, appVars, workerVars, analyticsVars, restClientVars, gqlVars>>
notWorker == <<restVars, appVars, uiVars, analyticsVars, restClientVars, gqlVars>>
notAnalytics == <<restVars, appVars, uiVars, workerVars, restClientVars, gqlVars>>
notClient == <<restVars, appVars, uiVars, workerVars, analyticsVars, gqlVars>>
notGql == <<restVars, appVars, uiVars, workerVars, analyticsVars, restClientVars>>

(***************************************************************************)
(* GitHubClient (src/github.ts).                                           *)
(***************************************************************************)
\* pages requested at most by getRepositories
MaxRepoPages == 10
\* repositories whose commits getCommitsForYear lists
RecentRepos == 10

\* markers contributed by ${this.username} in a message
UserText == IF userHas403 THEN {"403"} ELSE {}

\* GitHub accepts the token
TokenAccepted(tok) == tok = <<"x">>

\* What the API can answer to a request sent with tok when it lists up to
\* maxN items: everything is refused with 401 under a token it rejects.
Responses(tok, maxN) ==
  IF tok = <<>> \/ TokenAccepted(tok)
  THEN {Ok(n) : n \in 0..maxN} \cup {RateLimited, NotFound, ServerError}
  ELSE {BadCredentials}

\* getUser's catch block
GetUserError(error) ==
  IF error.status = 404 THEN [id |-> "user not found", text |-> UserText]
  ELSE IF error.status = 403
       THEN [id |-> "rate limit exceeded", text |-> {"rate limit"}]
       ELSE [id |-> "Failed to fetch user", text |-> error.text]

NoReposMsg == [id |-> "No public repositories", text |-> {"No public repositories"}]

\* getRepositories' catch block for an error of the API
GetRepositoriesError(error) ==
  IF "No public repositories" \in error.text THEN [id |-> "rethrown", text |-> error.text]
  ELSE IF error.status = 403
       THEN [id |-> "rate limit exceeded", text |-> {"rate limit"}]
       ELSE [id |-> "Failed to fetch repositories", text |-> error.text]

\* `No commits found for ${this.username} in ${year}` (year is 2024 or 2025)
NoCommitsMsg == [id |-> "No commits found", text |-> UserText]

\* The awaits of fetchAllData in order; the last eight are the comparison.
BaseCalls == <<"getUser", "getRepositories", "getLanguages", "getCommitsForYear",
               "getPullRequests", "getIssues", "getContributionCalendar">>
YearCalls == <<"getCommitsForYear", "getPullRequests", "getIssues",
               "getContributionCalendar">>
CallSeq == IF wantComparison THEN BaseCalls \o YearCalls \o YearCalls ELSE BaseCalls

Method == CallSeq[callIdx]

\* the first request a client method sends
FirstStage(m) == IF m \in {"getUser", "getPullRequests", "getIssues"} THEN "single" ELSE "pages"

\* repositories that the per-repository loop of the method visits
LoopRepos(m, repos) ==
  IF m = "getLanguages" THEN repos
  ELSE IF repos < RecentRepos THEN repos ELSE RecentRepos

Fetching == mainPc \in {"fetch", "retry"}

\* the next client method of fetchAllData is called
BeginCall(i) ==
  /\ callIdx' = i
  /\ stage' = FirstStage(CallSeq[i])
  /\ page' = 1
  /\ nRepos' = 0
  /\ repoIdx' = 0
  /\ nCommits' = 0

Idle ==
  /\ callIdx' = 0
  /\ stage' = "none"
  /\ page' = 0
  /\ nRepos' = 0
  /\ repoIdx' = 0
  /\ nCommits' = 0

\* fetchAllData returns { stats, comparisonStats }: main and
\* promptTokenWithRetry both go on to step 5 with it.
FetchSucceeded ==
  /\ Idle
  /\ mainPc' = "ui"
  /\ result' = [ok |-> TRUE, token |-> token]
  /\ fetchOutcome' = "ok"
  /\ UNCHANGED <<lastErr, exitCode, promptEntered>>

\* main's catch around the first fetchAllData
MainCatch(msg) ==
  IF Includes(msg, "rate limit") \/ Includes(msg, "403")
  THEN /\ mainPc' = "prompt"
       /\ promptEntered' = TRUE
       /\ UNCHANGED exitCode
  ELSE /\ mainPc' = "exit"
       /\ exitCode' = 1
       /\ UNCHANGED promptEntered

\* (variant of PromptCatch that asks again only after 'Bad credentials')
PromptCatchRethrows(msg) ==
  IF Includes(msg, "Bad credentials")
  THEN /\ mainPc' = "prompt"
       /\ UNCHANGED <<exitCode, promptEntered>>
  ELSE /\ mainPc' = "exit"
       /\ exitCode' = 1
       /\ UNCHANGED promptEntered

\* promptTokenWithRetry's catch: each of its three branches only prints a
\* hint, and the while loop asks for a token again.
PromptCatch(msg) ==
  /\ mainPc' = "prompt"
  /\ UNCHANGED <<exitCode, promptEntered>>

\* fetchAllData throws msg: main's catch handles the first fetch,
\* promptTokenWithRetry's catch every other one.
FetchFailed(msg) ==
  /\ Idle
  /\ lastErr' = msg
  /\ fetchOutcome' = "failed"
  /\ UNCHANGED result
  /\ IF mainPc = "fetch" THEN MainCatch(msg) ELSE PromptCatch(msg)

\* the client method in progress returns
MethodReturns ==
  IF callIdx = Len(CallSeq)
  THEN FetchSucceeded
  ELSE /\ BeginCall(callIdx + 1)
       /\ UNCHANGED <<mainPc, lastErr, result, exitCode, promptEntered, fetchOutcome>>

\* history: a request of the first fetchAllData is answered with a 403
Note403(resp) == saw403' = (saw403 \/ (mainPc = "fetch" /\ resp.status = 403))

(***************************************************************************)
(* The REST flow: main, fetchAllData and promptTokenWithRetry.             *)
(***************************************************************************)
Chars == {" ", "x"}
RECURSIVE SeqsUpTo(_, _)
SeqsUpTo(S, n) ==
  IF n = 0 THEN {<<>>}
  ELSE LET shorter == SeqsUpTo(S, n - 1)
       IN shorter \cup {Append(q, c) : q \in shorter, c \in S}
\* what can be typed at the token prompt
Answers == SeqsUpTo(Chars, MaxAnswerLen)
\* process.env.GITHUB_TOKEN: unset, a token GitHub accepts, one it rejects
EnvTokens == {<<>>, <<"x">>, <<"x", "x">>}

RestInit ==
  /\ mainPc = "username"
  /\ userHas403 = FALSE
  /\ wantComparison = FALSE
  /\ token = <<>>
  /\ callIdx = 0
  /\ stage = "none"
  /\ page = 0
  /\ nRepos = 0
  /\ repoIdx = 0
  /\ nCommits = 0
  /\ lastErr = NoMsg
  /\ result = [ok |-> FALSE, token |-> <<>>]
  /\ exitCode = -1
  /\ saw403 = FALSE
  /\ promptEntered = FALSE
  /\ fetchOutcome = "none"
  /\ lastAnswer = {}

\* Step 1 of main: promptUsername; an empty username ends the process.
PromptUsername ==
  /\ mainPc = "username"
  /\ \E empty \in BOOLEAN, has403 \in BOOLEAN :
       IF empty
       THEN /\ mainPc' = "exit"
            /\ exitCode' = 1
            /\ UNCHANGED userHas403
       ELSE /\ mainPc' = "comparison"
            /\ userHas403' = has403
            /\ UNCHANGED exitCode
  /\ UNCHANGED <<wantComparison, token, callIdx, stage, page, nRepos, repoIdx,
                 nCommits, lastErr, result, saw403, promptEntered, fetchOutcome,
                 lastAnswer>>
  /\ UNCHANGED notRest

\* Steps 2 and 4 of main: the comparison question, then
\* fetchAllData(process.env.GITHUB_TOKEN) calls client.getUser().
AskComparison ==
  /\ mainPc = "comparison"
  /\ \E yes \in BOOLEAN, envToken \in EnvTokens :
       /\ wantComparison' = yes
       /\ token' = envToken
  /\ mainPc' = "fetch"
  /\ callIdx' = 1
  /\ stage' = "single"
  /\ page' = 1
  /\ nRepos' = 0
  /\ repoIdx' = 0
  /\ nCommits' = 0
  /\ fetchOutcome' = "running"
  /\ UNCHANGED <<userHas403, lastErr, result, exitCode, saw403, promptEntered,
                 lastAnswer>>
  /\ UNCHANGED notRest

\* octokit.users.getByUsername answers
GetUserResponse ==
  /\ Fetching /\ stage = "single" /\ Method = "getUser"
  /\ \E resp \in Responses(token, 1) \ {Ok(0)} :
       /\ Note403(resp)
       /\ IF resp.status = 200 THEN MethodReturns ELSE FetchFailed(GetUserError(resp))
  /\ UNCHANGED <<userHas403, wantComparison, token, lastAnswer>>
  /\ UNCHANGED notRest

\* getPullRequests and getIssues: octokit.search.issuesAndPullRequests
\* answers; the catch block returns 0.
SearchResponse ==
  /\ Fetching /\ stage = "single" /\ Method \in {"getPullRequests", "getIssues"}
  /\ \E resp \in Responses(token, 1) :
       /\ Note403(resp)
       /\ MethodReturns
  /\ UNCHANGED <<userHas403, wantComparison, token, lastAnswer>>
  /\ UNCHANGED notRest

\* The per-repository loop starts after getRepositories returned repos.
BeginRepoLoop(repos) ==
  /\ stage' = "perRepo"
  /\ repoIdx' = 1
  /\ nRepos' = repos
  /\ nCommits' = 0
  /\ UNCHANGED <<callIdx, page, mainPc, lastErr, result, exitCode, promptEntered,
                 fetchOutcome>>

\* getRepositories leaves its loop with repos collected.
ReposLoopDone(repos) ==
  IF repos = 0
  THEN FetchFailed(GetRepositoriesError([status |-> 0, n |-> 0, text |-> NoReposMsg.text]))
  ELSE IF Method = "getRepositories" THEN MethodReturns ELSE BeginRepoLoop(repos)

\* octokit.repos.listForUser answers page `page`.
ReposPageResponse ==
  /\ Fetching /\ stage = "pages"
  /\ \E resp \in Responses(token, IF page <= MaxEnvPages THEN MaxPageLen ELSE 0) :
       /\ Note403(resp)
       /\ IF resp.status # 200 THEN FetchFailed(GetRepositoriesError(resp))
          ELSE IF resp.n = 0 THEN ReposLoopDone(nRepos)
          ELSE IF page + 1 <= MaxRepoPages
               THEN /\ page' = page + 1
                    /\ nRepos' = nRepos + resp.n
                    /\ UNCHANGED <<callIdx, stage, repoIdx, nCommits, mainPc,
                                   lastErr, result, exitCode, promptEntered,
                                   fetchOutcome>>
               ELSE ReposLoopDone(nRepos + resp.n)
  /\ UNCHANGED <<userHas403, wantComparison, token, lastAnswer>>
  /\ UNCHANGED notRest

\* getCommitsForYear after its loop: no commit at all is an error.
CommitsLoopDone(commits) ==
  IF commits = 0 THEN FetchFailed(NoCommitsMsg) ELSE MethodReturns

\* octokit.repos.listCommits (listLanguages in getLanguages) answers for
\* repository repoIdx; an error skips the repository.
RepoListingResponse ==
  /\ Fetching /\ stage = "perRepo"
  /\ \E resp \in Responses(token, MaxRepoCommits) :
       LET commits == nCommits + resp.n
       IN /\ Note403(resp)
          /\ IF repoIdx < LoopRepos(Method, nRepos)
             THEN /\ repoIdx' = repoIdx + 1
                  /\ nCommits' = commits
                  /\ UNCHANGED <<callIdx, stage, page, nRepos, mainPc, lastErr,
                                 result, exitCode, promptEntered, fetchOutcome>>
             ELSE IF Method = "getLanguages" THEN MethodReturns
                  ELSE CommitsLoopDone(commits)
  /\ UNCHANGED <<userHas403, wantComparison, token, lastAnswer>>
  /\ UNCHANGED notRest

\* promptTokenWithRetry: the answer to 'Paste your GitHub token'.
PromptAnswer ==
  /\ mainPc = "prompt"
  /\ \E answer \in Answers :
       LET tok == Trim(answer)
       IN /\ lastAnswer' = {answer}
          /\ IF tok = <<>>
             THEN /\ mainPc' = "exit"
                  /\ exitCode' = 0
                  /\ UNCHANGED <<token, callIdx, stage, page, nRepos, repoIdx,
                                 nCommits, fetchOutcome>>
             ELSE /\ mainPc' = "retry"
                  /\ token' = tok
                  /\ fetchOutcome' = "running"
                  /\ BeginCall(1)
                  /\ UNCHANGED exitCode
  /\ UNCHANGED <<userHas403, wantComparison, lastErr, result, saw403, promptEntered>>
  /\ UNCHANGED notRest

RestNext ==
  \/ PromptUsername
  \/ AskComparison
  \/ GetUserResponse
  \/ SearchResponse
  \/ ReposPageResponse
  \/ RepoListingResponse
  \/ PromptAnswer

(***************************************************************************)
(* GitHubGraphQLClient (src/github-graphql-fixed.ts) and the Ink           *)
(* application GitHubWrappedApp that uses it.                              *)
(***************************************************************************)
\* getCompleteStats(year: number = 2025)
DefaultYear == 2025
\* the years the clock of the process can show
CurrentYears == {DefaultYear, DefaultYear + 1}
Years == CurrentYears

\* markers contributed by ${this.username} in a message of the client
LoginText == IF loginHas403 THEN {"403"} ELSE {}

\* An answer to the GraphQL request: status 200 with data (user and
\* contributionsCollection present or not, commit contributions or none), or
\* an error thrown by graphql() with its status (0 for none) and the markers
\* of its message.  kind names what happened at the API.
GqlData(kind, user, contrib, commits) ==
  [kind |-> kind, status |-> 200, text |-> {}, user |-> user, contrib |-> contrib,
   commits |-> commits]
GqlError(kind, code, text) ==
  [kind |-> kind, status |-> code, text |-> text, user |-> FALSE, contrib |-> FALSE,
   commits |-> FALSE]

GqlResponses(tok) ==
  IF tok = <<>> \/ TokenAccepted(tok)
  THEN { GqlData("ok", TRUE, TRUE, TRUE), GqlData("ok", TRUE, TRUE, FALSE),
         GqlData("no user", FALSE, FALSE, FALSE),
         GqlData("authentication required", TRUE, FALSE, FALSE),
         GqlError("not found", 0, {"NOT_FOUND"}),
         GqlError("not found", 0, {"Could not resolve to a User"}),
         GqlError("rate limit", 403, {}),
         GqlError("rate limit", 403, {"rate limit"}),
         GqlError("rate limit", 0, {"rate limit"}),
         GqlError("other", 500, {}) }
  ELSE { GqlError("bad credentials", 401, {"Bad credentials"}) }

AuthRequiredMsg == [id |-> "AUTHENTICATION REQUIRED", text |-> {"AUTHENTICATION REQUIRED"}]
UserNotFoundMsg == [id |-> "GitHub user not found", text |-> LoginText]
InvalidTokenMsg == [id |-> "Invalid GitHub token", text |-> {}]
RateLimitMsg == [id |-> "GitHub API rate limit exceeded", text |-> {"rate limit"}]
FailedToFetchMsg(error) == [id |-> "Failed to fetch data", text |-> error.text]
NoCommitsGqlMsg == [id |-> "No commits found", text |-> LoginText]

\* (variant of StatsCatch that recognises a rate limit by the message only)
StatsCatchByMessage(error) ==
  IF "AUTHENTICATION REQUIRED" \in error.text THEN AuthRequiredMsg
  ELSE IF "NOT_FOUND" \in error.text \/ "Could not resolve to a User" \in error.text
       THEN UserNotFoundMsg
  ELSE IF error.status = 401 \/ "Bad credentials" \in error.text THEN InvalidTokenMsg
  ELSE IF "rate limit" \in error.text THEN RateLimitMsg
  ELSE FailedToFetchMsg(error)

\* the catch block of getCompleteStats
StatsCatch(error) ==
  IF "AUTHENTICATION REQUIRED" \in error.text THEN AuthRequiredMsg
  ELSE IF "NOT_FOUND" \in error.text \/ "Could not resolve to a User" \in error.text
       THEN UserNotFoundMsg
  ELSE IF error.status = 401 \/ "Bad credentials" \in error.text THEN InvalidTokenMsg
  ELSE IF error.status = 403 \/ "rate limit" \in error.text THEN RateLimitMsg
  ELSE FailedToFetchMsg(error)

\* the try block of getCompleteStats after the await: the error it throws,
\* or status 200 when it falls through to the cache write
StatsTry(resp) ==
  IF resp.status # 200 THEN [status |-> resp.status, text |-> resp.text]
  ELSE IF ~resp.user THEN [status |-> 0, text |-> {}]
  ELSE IF ~resp.contrib THEN [status |-> 0, text |-> {"AUTHENTICATION REQUIRED"}]
  ELSE [status |-> 200, text |-> {}]

\* getCompleteStats from the answer on: what it throws (NoMsg: it returns)
GetCompleteStats(resp) ==
  LET error == StatsTry(resp)
  IN IF error.status = 200 THEN NoMsg ELSE StatsCatch(error)

\* the cache after getCompleteStats(year) handled its answer: set on
\* success, delete in the catch block
CacheAfter(cache, year, thrown) ==
  IF thrown = NoMsg THEN cache \cup {year} ELSE cache \ {year}

\* the nine accessor calls of fetchData's Promise.all
Accessors == <<"getUser", "getRepositories", "getLanguages", "getCommitsForYear",
               "getPullRequests", "getIssues", "getContributionCalendar",
               "getTotalLinesChanged", "getTotalCommitCount">>
AccessorSet == {Accessors[i] : i \in 1..Len(Accessors)}

\* the year an accessor passes to getCompleteStats in fetchData
YearOf(a) ==
  IF a \in {"getUser", "getRepositories", "getLanguages"} THEN DefaultYear ELSE selectedYear

\* cache check at the start of getCompleteStats: a miss sends a request
SendsRequest(cache, year) == year \notin cache

\* The accessors of calls start one after the other without an await in
\* between: each checks the cache and sends its request on a miss.
RECURSIVE StartCalls(_, _, _)
StartCalls(calls, cache, year) ==
  IF calls = <<>> THEN [sent |-> {}, reqs |-> [y \in Years |-> 0]]
  ELSE LET rest == StartCalls(Tail(calls), cache, year)
           a == Head(calls)
           y == IF a \in {"getUser", "getRepositories", "getLanguages"} THEN DefaultYear ELSE year
       IN IF SendsRequest(cache, y)
          THEN [sent |-> rest.sent \cup {a},
                reqs |-> [rest.reqs EXCEPT ![y] = @ + 1]]
          ELSE rest

\* what the accessor throws once getCompleteStats handled the answer
AccessorThrows(a, resp) ==
  LET thrown == GetCompleteStats(resp)
  IN IF thrown # NoMsg THEN thrown
     ELSE IF a = "getCommitsForYear" /\ ~resp.commits THEN NoCommitsGqlMsg
     ELSE NoMsg

AppInit ==
  /\ phase = "username_input"
  /\ appToken = <<>>
  /\ appError = "none"
  /\ message = ""
  /\ loginHas403 = FALSE
  /\ selectedYear = DefaultYear
  /\ effectRan = FALSE
  /\ appExited = FALSE
  /\ clientToken = <<>>
  /\ statsCache = {}
  /\ pending = {}
  /\ settled = FALSE
  /\ requests = [y \in Years |-> 0]
  /\ lastResp = GqlData("none", FALSE, FALSE, FALSE)
  /\ lastThrown = NoMsg
  /\ tokenTyped = FALSE
  /\ fetchStarts = 0
  /\ cancelledCalls = 0

\* handleUsernameSubmit: UsernameInput submits a non-empty trimmed name.
HandleUsernameSubmit ==
  /\ phase = "username_input" /\ ~appExited
  /\ \E has403 \in BOOLEAN, envToken \in EnvTokens :
       /\ loginHas403' = has403
       /\ appToken' = envToken
  /\ phase' = "fetching_data"
  /\ message' = "Initializing..."
  /\ effectRan' = FALSE
  /\ fetchStarts' = 0
  /\ UNCHANGED <<appError, selectedYear, appExited, clientVars, tokenTyped,
                 cancelledCalls>>
  /\ UNCHANGED notApp

\* TokenInput: Enter submits the trimmed token if it is not empty
\* (handleSubmit, handleTokenSubmit).
HandleTokenSubmit ==
  /\ phase = "token_request" /\ ~appExited
  /\ \E answer \in Answers :
       IF Trim(answer) # <<>>
       THEN /\ phase' = "fetching_data"
            /\ appToken' = Trim(answer)
            /\ message' = "Validating token and fetching data..."
            /\ effectRan' = FALSE
            /\ appError' = "none"
            /\ tokenTyped' = TRUE
            /\ fetchStarts' = 0
       ELSE UNCHANGED <<phase, appToken, message, effectRan, appError, tokenTyped,
                        fetchStarts>>
  /\ UNCHANGED <<loginHas403, selectedYear, appExited, clientVars, cancelledCalls>>
  /\ UNCHANGED notApp

\* TokenInput: Ctrl+C calls onSkip, which is process.exit(0).
TokenSkip ==
  /\ phase = "token_request" /\ ~appExited
  /\ appExited' = TRUE
  /\ UNCHANGED <<phase, appToken, appError, message, loginHas403, selectedYear,
                 effectRan, clientVars, tokenTyped, fetchStarts, cancelledCalls>>
  /\ UNCHANGED notApp

\* the dependencies of the data fetching effect: the phase and, in
\* fetching_data, the username and the token (else null, here <<>>)
EffectDepsWithMessage ==
  <<phase, IF phase = "fetching_data" THEN <<loginHas403, appToken, message>> ELSE <<>> >>
EffectDeps ==
  <<phase, IF phase = "fetching_data" THEN <<loginHas403, appToken>> ELSE <<>> >>

\* the accessor calls of a fetch that is over join the cancelled ones
Cancel(calls) ==
  LET total == cancelledCalls + Cardinality(calls)
  IN cancelledCalls' = IF total < MaxCancelled THEN total ELSE MaxCancelled

\* The data fetching effect runs fetchData up to its Promise.all: a new
\* client, the progress message, and the nine accessor calls started.  The
\* cleanup of the effect's previous run comes first.  The render of the
\* progress message runs the effect again only if a dependency changed.
RunFetchEffect ==
  /\ phase = "fetching_data" /\ ~effectRan /\ ~appExited
  /\ fetchStarts' = fetchStarts + 1
  /\ Cancel(pending)
  /\ message' = "Fetching GitHub data..."
  /\ \E year \in CurrentYears :
       LET started == StartCalls(Accessors, {}, year)
       IN /\ selectedYear' = year
          /\ pending' = started.sent
          /\ requests' = started.reqs
  /\ clientToken' = appToken
  /\ statsCache' = {}
  /\ settled' = FALSE
  /\ UNCHANGED <<phase, appToken, appError, loginHas403, appExited, lastResp,
                 lastThrown, tokenTyped>>
  /\ effectRan' = (EffectDeps' = EffectDeps)
  /\ UNCHANGED notApp

\* the catch block of fetchData
FetchDataCatchShowsStats(err) ==
  /\ phase' = "stats_display"
  /\ appError' = "none"
FetchDataCatch(err) ==
  IF Includes(err, "rate limit") \/ Includes(err, "403")
  THEN /\ phase' = "token_request"
       /\ appError' = "none"
  ELSE IF Includes(err, "Bad credentials")
       THEN /\ phase' = "token_request"
            /\ appError' = "Invalid token. Please try again."
       ELSE /\ phase' = "error"
            /\ appError' = err.id

\* The GraphQL answer to the request of accessor call a arrives:
\* getCompleteStats updates the cache and returns or throws; the first
\* accessor that throws rejects the Promise.all and runs the catch block,
\* the last one that returns lets fetchData go on to stats_display.  The
\* phase change runs the cleanup of the effect (cancelled = true); the
\* calls still in flight belong to a fetch that is over.
GraphQLResponse ==
  /\ ~appExited
  /\ \E a \in pending, resp \in GqlResponses(clientToken) :
       LET err == AccessorThrows(a, resp)
       IN /\ statsCache' = CacheAfter(statsCache, YearOf(a), GetCompleteStats(resp))
          /\ lastResp' = resp
          /\ lastThrown' = GetCompleteStats(resp)
          /\ IF err # NoMsg
             THEN /\ settled' = TRUE
                  /\ pending' = {}
                  /\ Cancel(pending \ {a})
                  /\ FetchDataCatch(err)
                  /\ effectRan' = FALSE
                  /\ UNCHANGED message
             ELSE IF pending = {a}
                  THEN /\ settled' = TRUE
                       /\ pending' = {}
                       /\ phase' = "stats_display"
                       /\ message' = "Generating your wrapped with REAL data..."
                       /\ effectRan' = FALSE
                       /\ UNCHANGED <<appError, cancelledCalls>>
                  ELSE /\ pending' = pending \ {a}
                       /\ UNCHANGED <<phase, appError, message, settled, effectRan,
                                      cancelledCalls>>
  /\ UNCHANGED <<appToken, loginHas403, selectedYear, appExited, clientToken, requests,
                 tokenTyped, fetchStarts>>
  /\ UNCHANGED notApp

\* The answer to an accessor call of a fetch that is over arrives and the
\* promise of the call settles.  The Promise.all it belongs to is settled
\* and fetchData has run its catch block to the end: no statement of
\* fetchData is left to run for it.
CancelledResponse ==
  /\ ~appExited
  /\ cancelledCalls > 0
  /\ cancelledCalls' = cancelledCalls - 1
  /\ UNCHANGED <<phase, appToken, appError, message, loginHas403, selectedYear,
                 effectRan, appExited, clientVars, tokenTyped, fetchStarts>>
  /\ UNCHANGED notApp

AppNext ==
  \/ HandleUsernameSubmit
  \/ HandleTokenSubmit
  \/ TokenSkip
  \/ RunFetchEffect
  \/ GraphQLResponse
  \/ CancelledResponse

(***************************************************************************)
(* BackgroundBrowserInstaller (src/utils/browser-installer.ts).            *)
(***************************************************************************)
installerVars == <<status, installPromise, chromium, ensuredStatus>>
displayVars == <<mounted, hasComparison, currentSlide, actionTaken, showFarewell,
                 isProcessing, exportStatus, exportError, exportSuccess, exportTasks,
                 uiExited>>
keyHistory == <<lastKey, lastShown, lastEffect>>

\* isInstalling() and isReady()
IsInstalling == status = "installing"
IsReady == status = "ready"

\* ensureReady() can go on at once: it returns early or has no pending
\* promise to await
EnsureReadySettled == status = "ready" \/ installPromise # "pending"

\* ensureReady() throws: the final status check
EnsureReadyThrows == status # "ready" /\ status = "error"

NoKey ==
  /\ lastKey' = "none"
  /\ lastShown' = <<"none", 0>>
  /\ lastEffect' = "none"

\* startBackgroundInstall() with the synchronous part of checkAndInstall():
\* nothing if already started; else Chromium is looked for and, if absent,
\* the installation command is started.
StartBackgroundInstall ==
  /\ mounted /\ ~uiExited
  /\ installPromise = "null"
  /\ \E found \in (IF chromium = "unknown" THEN BOOLEAN ELSE {chromium = "present"}) :
       /\ chromium' = IF found THEN "present" ELSE "absent"
       /\ status' = IF found THEN "ready" ELSE "installing"
       /\ installPromise' = IF found THEN "resolved" ELSE "pending"
  /\ NoKey
  /\ UNCHANGED <<displayVars, ensuredStatus, lastEvent>>
  /\ UNCHANGED notUi

\* checkAndInstall() after execAsync: the installation succeeded or failed.
InstallFinishes ==
  /\ mounted /\ ~uiExited
  /\ installPromise = "pending"
  /\ \E ok \in BOOLEAN :
       /\ status' = IF ok THEN "ready" ELSE "error"
       /\ chromium' = IF ok THEN "present" ELSE chromium
  /\ installPromise' = "resolved"
  /\ NoKey
  /\ UNCHANGED <<displayVars, ensuredStatus, lastEvent>>
  /\ UNCHANGED notUi

(***************************************************************************)
(* StatsDisplay (src/ui.tsx).                                              *)
(***************************************************************************)
BaseSlides == <<"contrib", "langs", "arch", "streak", "prs", "achieve">>
Slides ==
  (IF hasComparison THEN Append(BaseSlides, "comparison") ELSE BaseSlides) \o <<"export">>
TotalSlides == Len(Slides)
ExportSlideIndex == TotalSlides - 1

\* the updaters of currentSlide: Math.min(prev + 1, totalSlides - 1) and
\* Math.max(prev - 1, 0)
NextSlide(prev) == IF prev + 1 < TotalSlides - 1 THEN prev + 1 ELSE TotalSlides - 1
PrevSlideUnclamped(prev) == prev - 1
PrevSlide(prev) == IF prev - 1 > 0 THEN prev - 1 ELSE 0

Keys == {"rightArrow", "leftArrow", "space", "escape", "return",
         "e", "E", "q", "Q", "r", "R", "t", "T", "l", "L", "x"}

\* what the render shows
Shown ==
  IF exportSuccess THEN <<"success", currentSlide>>
  ELSE IF isProcessing
       THEN IF exportError # "none" THEN <<"retry prompt", currentSlide>>
            ELSE <<"processing", currentSlide>>
  ELSE IF showFarewell THEN <<"farewell", currentSlide>>
  ELSE <<"slide", currentSlide>>

DisplayInit ==
  /\ mounted = FALSE
  /\ hasComparison = FALSE
  /\ currentSlide = 0
  /\ actionTaken = "none"
  /\ showFarewell = FALSE
  /\ isProcessing = FALSE
  /\ exportStatus = ""
  /\ exportError = "none"
  /\ exportSuccess = FALSE
  /\ exportTasks = <<>>
  /\ uiExited = FALSE
  /\ status = "checking"
  /\ installPromise = "null"
  /\ chromium = "unknown"
  /\ lastKey = "none"
  /\ lastShown = <<"none", 0>>
  /\ lastEffect = "none"
  /\ lastEvent = "none"
  /\ ensuredStatus = "none"

\* StatsDisplay is rendered with or without comparisonStats.
MountStatsDisplay ==
  /\ ~mounted
  /\ mounted' = TRUE
  /\ \E cmp \in BOOLEAN : hasComparison' = cmp
  /\ UNCHANGED <<currentSlide, actionTaken, showFarewell, isProcessing, exportStatus,
                 exportError, exportSuccess, exportTasks, uiExited, installerVars,
                 keyHistory, lastEvent>>
  /\ UNCHANGED notUi

\* the async block that E and R start: it runs up to `await import(...)`
StartExportTask ==
  /\ exportTasks' = Append(exportTasks, "import")
  /\ lastEffect' = "export"

\* `if (isProcessing) return`: prevent multiple actions while processing
NoProcessingGuard == FALSE
ProcessingGuard == isProcessing

\* the useInput handler for key k
HandleKey(k) ==
  IF exportSuccess
  THEN IF k = "return"
       THEN /\ exportSuccess' = FALSE
            /\ actionTaken' = "export"
            /\ showFarewell' = TRUE
            /\ lastEffect' = "farewell"
            /\ UNCHANGED <<currentSlide, isProcessing, exportStatus, exportError,
                           exportTasks, uiExited>>
       ELSE /\ lastEffect' = "none"
            /\ UNCHANGED <<currentSlide, actionTaken, showFarewell, isProcessing,
                           exportStatus, exportError, exportSuccess, exportTasks, uiExited>>
  ELSE IF showFarewell
  THEN /\ uiExited' = (k = "return")
       /\ lastEffect' = IF k = "return" THEN "exit" ELSE "none"
       /\ UNCHANGED <<currentSlide, actionTaken, showFarewell, isProcessing,
                      exportStatus, exportError, exportSuccess, exportTasks>>
  ELSE IF isProcessing /\ exportError # "none"
  THEN IF k \in {"r", "R"}
       THEN /\ exportError' = "none"
            /\ exportStatus' = "Initializing..."
            /\ StartExportTask
            /\ UNCHANGED <<currentSlide, actionTaken, showFarewell, isProcessing,
                           exportSuccess, uiExited>>
       ELSE /\ uiExited' = (k \in {"q", "Q"})
            /\ lastEffect' = IF k \in {"q", "Q"} THEN "exit" ELSE "none"
            /\ UNCHANGED <<currentSlide, actionTaken, showFarewell, isProcessing,
                           exportStatus, exportError, exportSuccess, exportTasks>>
  ELSE IF ProcessingGuard
  THEN /\ lastEffect' = "none"
       /\ UNCHANGED <<currentSlide, actionTaken, showFarewell, isProcessing,
                      exportStatus, exportError, exportSuccess, exportTasks, uiExited>>
  ELSE IF currentSlide = ExportSlideIndex
  THEN IF k \in {"e", "E"}
       THEN /\ isProcessing' = TRUE
            /\ exportError' = "none"
            /\ exportStatus' = "Initializing..."
            /\ StartExportTask
            /\ UNCHANGED <<currentSlide, actionTaken, showFarewell, exportSuccess, uiExited>>
       ELSE IF k \in {"q", "Q"}
       THEN /\ uiExited' = TRUE
            /\ lastEffect' = "exit"
            /\ UNCHANGED <<currentSlide, actionTaken, showFarewell, isProcessing,
                           exportStatus, exportError, exportSuccess, exportTasks>>
       ELSE /\ currentSlide' = IF k = "leftArrow" THEN PrevSlide(currentSlide)
                                                  ELSE currentSlide
            /\ lastEffect' = IF k = "leftArrow" THEN "navigate" ELSE "none"
            /\ UNCHANGED <<actionTaken, showFarewell, isProcessing, exportStatus,
                           exportError, exportSuccess, exportTasks, uiExited>>
  ELSE IF k \in {"rightArrow", "space"}
  THEN /\ currentSlide' = NextSlide(currentSlide)
       /\ lastEffect' = "navigate"
       /\ UNCHANGED <<actionTaken, showFarewell, isProcessing, exportStatus,
                      exportError, exportSuccess, exportTasks, uiExited>>
  ELSE IF k = "leftArrow"
  THEN /\ currentSlide' = PrevSlide(currentSlide)
       /\ lastEffect' = "navigate"
       /\ UNCHANGED <<actionTaken, showFarewell, isProcessing, exportStatus,
                      exportError, exportSuccess, exportTasks, uiExited>>
  ELSE /\ uiExited' = (k = "escape")
       /\ lastEffect' = IF k = "escape" THEN "exit" ELSE "none"
       /\ UNCHANGED <<currentSlide, actionTaken, showFarewell, isProcessing,
                      exportStatus, exportError, exportSuccess, exportTasks>>

\* a key is pressed while StatsDisplay is rendered
KeyPress ==
  /\ mounted /\ ~uiExited
  /\ \E k \in Keys :
       /\ HandleKey(k)
       /\ lastKey' = k
  /\ lastShown' = Shown
  /\ lastEvent' = "none"
  /\ UNCHANGED <<mounted, hasComparison, installerVars>>
  /\ UNCHANGED notUi

\* the tasks without task i
RemoveTask(i) == SubSeq(exportTasks, 1, i - 1) \o SubSeq(exportTasks, i + 1, Len(exportTasks))

\* the catch of the export task: setExportError, setIsProcessing(false)
ExportFails(i, msg) ==
  /\ exportError' = msg
  /\ isProcessing' = FALSE
  /\ exportTasks' = RemoveTask(i)
  /\ lastEvent' = "failed"
  /\ UNCHANGED <<exportSuccess, exportStatus>>

\* the end of the try of the export task: setExportPath,
\* setExportSuccess(true), setIsProcessing(false)
ExportSucceeds(i) ==
  /\ exportSuccess' = TRUE
  /\ isProcessing' = FALSE
  /\ exportTasks' = RemoveTask(i)
  /\ exportStatus' = "Saving file..."
  /\ lastEvent' = "succeeded"
  /\ UNCHANGED exportError

\* The dynamic import of a task resolves (or fails); exportPNG starts and
\* runs up to its first await: ensureReady() unless the installer is ready.
ExportImported ==
  /\ mounted /\ ~uiExited
  /\ \E i \in 1..Len(exportTasks), imported \in BOOLEAN :
       /\ exportTasks[i] = "import"
       /\ IF ~imported THEN ExportFails(i, "import failed")
          ELSE /\ exportTasks' = [exportTasks EXCEPT ![i] =
                                    IF IsInstalling \/ ~IsReady THEN "ensureReady" ELSE "render"]
               /\ exportStatus' = IF IsInstalling THEN "Finalizing Chromium setup (one-time)..."
                                  ELSE IF ~IsReady THEN "Checking Chromium installation..."
                                  ELSE "Loading template and fetching avatar..."
               /\ UNCHANGED <<exportError, isProcessing, exportSuccess, lastEvent>>
  /\ NoKey
  /\ UNCHANGED <<mounted, hasComparison, currentSlide, actionTaken, showFarewell,
                 uiExited, installerVars>>
  /\ UNCHANGED notUi

\* ensureReady() called by exportPNG settles: it throws if the status is
\* 'error' and resolves otherwise.
EnsureReadyReturns ==
  /\ mounted /\ ~uiExited
  /\ EnsureReadySettled
  /\ \E i \in 1..Len(exportTasks) :
       /\ exportTasks[i] = "ensureReady"
       /\ IF EnsureReadyThrows
          THEN /\ ExportFails(i, "Chromium installation failed.")
               /\ UNCHANGED ensuredStatus
          ELSE /\ exportTasks' = [exportTasks EXCEPT ![i] = "render"]
               /\ exportStatus' = "Loading template and fetching avatar..."
               /\ ensuredStatus' = status
               /\ UNCHANGED <<exportError, isProcessing, exportSuccess, lastEvent>>
  /\ NoKey
  /\ UNCHANGED <<mounted, hasComparison, currentSlide, actionTaken, showFarewell,
                 uiExited, status, installPromise, chromium>>
  /\ UNCHANGED notUi

\* The rest of exportPNG: template, avatar, chromium.launch, screenshot,
\* saveFile.  The launch needs Chromium on disk.
ExportRendered ==
  /\ mounted /\ ~uiExited
  /\ \E i \in 1..Len(exportTasks) :
       /\ exportTasks[i] = "render"
       /\ \E found \in (IF chromium = "unknown" THEN BOOLEAN ELSE {chromium = "present"}),
             ok \in BOOLEAN :
            /\ chromium' = IF found THEN "present" ELSE "absent"
            /\ IF found /\ ok THEN ExportSucceeds(i)
               ELSE ExportFails(i, IF found THEN "render failed"
                                   ELSE "Chromium browser not installed!")
  /\ NoKey
  /\ UNCHANGED <<mounted, hasComparison, currentSlide, actionTaken, showFarewell,
                 uiExited, status, installPromise, ensuredStatus>>
  /\ UNCHANGED notUi

DisplayNext ==
  \/ MountStatsDisplay
  \/ KeyPress
  \/ ExportImported
  \/ EnsureReadyReturns
  \/ ExportRendered
  \/ StartBackgroundInstall
  \/ InstallFinishes

(***************************************************************************)
(* The worker-based export (src/export.ts, src/export-worker.mjs).         *)
(***************************************************************************)
\* the calls of exportViaNodeWorker that can be under way together
Exports == 1..MaxExports

WorkerInit ==
  /\ format = [e \in Exports |-> "png"]
  /\ inputFile = [e \in Exports |-> "absent"]
  /\ outputFile = [e \in Exports |-> "absent"]
  /\ imageFile = "absent"
  /\ imageBy = {}
  /\ proc = [e \in Exports |-> "none"]
  /\ exportPromise = [e \in Exports |-> "none"]
  /\ settledWith = [e \in Exports |-> "nothing"]
  /\ reportRead = [e \in Exports |-> "none"]
  /\ inputAtSpawn = [e \in Exports |-> "none"]

\* the catch of exportViaNodeWorker: both temporary files are removed and
\* the promise is rejected
ParentCatch(e) ==
  /\ inputFile' = [inputFile EXCEPT ![e] = "absent"]
  /\ outputFile' = [outputFile EXCEPT ![e] = "absent"]
  /\ exportPromise' = [exportPromise EXCEPT ![e] = "rejected"]
  /\ settledWith' = [settledWith EXCEPT ![e] = "Export failed"]

\* the end of the try of exportViaNodeWorker: result.success decides
SettleOnAnyReport(report) == "resolved"
SettleOn(report) == IF report = "success" THEN "resolved" ELSE "rejected"

\* exportPNG / exportSVG: exportViaNodeWorker up to `await proc.exited`.
\* The input file is written with writeFileSync, then the worker is
\* spawned; either call may throw.
ExportViaNodeWorker ==
  /\ \E e \in Exports, fmt \in {"png", "svg"}, written \in BOOLEAN, spawned \in BOOLEAN :
       /\ exportPromise[e] # "pending"
       /\ format' = [format EXCEPT ![e] = fmt]
       /\ IF written /\ spawned
          THEN /\ inputFile' = [inputFile EXCEPT ![e] = "complete"]
               /\ outputFile' = [outputFile EXCEPT ![e] = "absent"]
               /\ inputAtSpawn' = [inputAtSpawn EXCEPT ![e] = inputFile'[e]]
               /\ proc' = [proc EXCEPT ![e] = "read"]
               /\ exportPromise' = [exportPromise EXCEPT ![e] = "pending"]
               /\ settledWith' = [settledWith EXCEPT ![e] = "nothing"]
          ELSE /\ ParentCatch(e)
               /\ inputAtSpawn' = [inputAtSpawn EXCEPT ![e] = "none"]
               /\ proc' = [proc EXCEPT ![e] = "none"]
       /\ imageBy' = imageBy \ {e}
       /\ reportRead' = [reportRead EXCEPT ![e] = "none"]
  /\ UNCHANGED imageFile
  /\ UNCHANGED notWorker

\* the worker process has ended
Exited(e) == proc[e] \in {"exit 0", "exit 1", "died"}

\* the worker goes on to its next step
WorkerStep(e, next) ==
  /\ proc' = [proc EXCEPT ![e] = next]
  /\ UNCHANGED <<inputFile, outputFile>>

\* the catch of the worker: the error is written to the output file, the
\* input file is removed and the process exits with 1; if that write throws
\* the process dies without either
WorkerCatch(e) ==
  \E wrote \in BOOLEAN :
    /\ outputFile' = [outputFile EXCEPT ![e] = IF wrote THEN "failure" ELSE @]
    /\ inputFile' = [inputFile EXCEPT ![e] = IF wrote THEN "absent" ELSE @]
    /\ proc' = [proc EXCEPT ![e] = IF wrote THEN "exit 1" ELSE "died"]

\* the worker reads and parses the input file
WorkerReadsInput ==
  /\ \E e \in Exports, ok \in BOOLEAN :
       /\ proc[e] = "read"
       /\ IF ok /\ inputFile[e] = "complete" THEN WorkerStep(e, "render") ELSE WorkerCatch(e)
  /\ UNCHANGED <<format, imageFile, imageBy, exportPromise, settledWith, reportRead,
                 inputAtSpawn>>
  /\ UNCHANGED notWorker

\* font, generateJSX and satori
WorkerRenders ==
  /\ \E e \in Exports, ok \in BOOLEAN :
       /\ proc[e] = "render"
       /\ IF ok THEN WorkerStep(e, IF format[e] = "svg" THEN "write image" ELSE "convert")
          ELSE WorkerCatch(e)
  /\ UNCHANGED <<format, imageFile, imageBy, exportPromise, settledWith, reportRead,
                 inputAtSpawn>>
  /\ UNCHANGED notWorker

\* for 'png' the conversion with sharp
WorkerConverts ==
  /\ \E e \in Exports, ok \in BOOLEAN :
       /\ proc[e] = "convert"
       /\ IF ok THEN WorkerStep(e, "write image") ELSE WorkerCatch(e)
  /\ UNCHANGED <<format, imageFile, imageBy, exportPromise, settledWith, reportRead,
                 inputAtSpawn>>
  /\ UNCHANGED notWorker

\* writeFileSync(filename, ...) of the image
WorkerWritesImage ==
  /\ \E e \in Exports, ok \in BOOLEAN :
       /\ proc[e] = "write image"
       /\ IF ok
          THEN /\ imageFile' = "written"
               /\ imageBy' = imageBy \cup {e}
               /\ WorkerStep(e, "write result")
          ELSE WorkerCatch(e) /\ UNCHANGED <<imageFile, imageBy>>
  /\ UNCHANGED <<format, exportPromise, settledWith, reportRead, inputAtSpawn>>
  /\ UNCHANGED notWorker

\* the result with success: true is written to the output file, the input
\* file is removed and the process exits with 0
WorkerWritesResult ==
  /\ \E e \in Exports, ok \in BOOLEAN :
       /\ proc[e] = "write result"
       /\ IF ok
          THEN /\ outputFile' = [outputFile EXCEPT ![e] = "success"]
               /\ inputFile' = [inputFile EXCEPT ![e] = "absent"]
               /\ proc' = [proc EXCEPT ![e] = "exit 0"]
          ELSE WorkerCatch(e)
  /\ UNCHANGED <<format, imageFile, imageBy, exportPromise, settledWith, reportRead,
                 inputAtSpawn>>
  /\ UNCHANGED notWorker

\* the worker dies at any point (a failing import, a kill); a write of the
\* output file that was under way leaves it truncated
WorkerDies ==
  /\ \E e \in Exports, truncated \in BOOLEAN :
       /\ proc[e] # "none" /\ ~Exited(e)
       /\ proc' = [proc EXCEPT ![e] = "died"]
       /\ outputFile' = [outputFile EXCEPT ![e] =
                           IF truncated /\ proc[e] = "write result" THEN "truncated" ELSE @]
  /\ UNCHANGED <<format, inputFile, imageFile, imageBy, exportPromise, settledWith,
                 reportRead, inputAtSpawn>>
  /\ UNCHANGED notWorker

\* exportViaNodeWorker after `await proc.exited`: the output file is looked
\* for, read, parsed and removed, and the promise is settled.
WorkerExited ==
  /\ \E e \in Exports :
       /\ exportPromise[e] = "pending"
       /\ Exited(e)
       /\ IF outputFile[e] = "absent"
          THEN /\ exportPromise' = [exportPromise EXCEPT ![e] = "rejected"]
               /\ settledWith' = [settledWith EXCEPT
                                    ![e] = "Worker did not create output file"]
               /\ UNCHANGED <<inputFile, outputFile, reportRead>>
          ELSE \E readable \in BOOLEAN :
                 IF ~readable \/ outputFile[e] = "truncated"
                 THEN ParentCatch(e) /\ UNCHANGED reportRead
                 ELSE /\ reportRead' = [reportRead EXCEPT ![e] = outputFile[e]]
                      /\ outputFile' = [outputFile EXCEPT ![e] = "absent"]
                      /\ exportPromise' = [exportPromise EXCEPT ![e] = SettleOn(outputFile[e])]
                      /\ settledWith' = [settledWith EXCEPT ![e] =
                                           IF exportPromise'[e] = "resolved" THEN "result.path"
                                           ELSE "result.error"]
                      /\ UNCHANGED inputFile
  /\ UNCHANGED <<format, imageFile, imageBy, proc, inputAtSpawn>>
  /\ UNCHANGED notWorker

WorkerNext ==
  \/ ExportViaNodeWorker
  \/ WorkerReadsInput
  \/ WorkerRenders
  \/ WorkerConverts
  \/ WorkerWritesImage
  \/ WorkerWritesResult
  \/ WorkerDies
  \/ WorkerExited

(***************************************************************************)
(* StatsAnalyzer (src/analytics.ts).                                       *)
(***************************************************************************)
AnalyticsInit ==
  /\ called = "none"
  /\ args = [contributions |-> <<>>, languageStats |-> <<>>, commits |-> <<>>,
             repos |-> <<>>,
             wrappedStats |-> [totalCommits |-> 0, totalPRs |-> 0, totalRepos |-> 0,
                               totalStars |-> 0, longestStreak |-> 0,
                               currentStreak |-> 0],
             peakHour |-> 0, totalCommits |-> 0, totalPRs |-> 0, utcOffset |-> 0,
             stats |-> [longestStreak |-> <<>>, totalCommits |-> <<>>,
                        totalStars |-> <<>>, totalPRs |-> <<>>, peakHour |-> <<>>,
                        topLanguages |-> <<>>]]
  /\ argsAfter = args
  /\ ret = [streak |-> [longest |-> 0, current |-> 0], topLanguages |-> <<>>,
            peakHour |-> 0, archetype |-> "none", achievements |-> <<>>,
            mostActiveRepo |-> "none", totalStars |-> 0, topRepos |-> <<>>,
            score |-> 0, tier |-> "none"]

\* the call of function fn with arguments a returns r and leaves the
\* arguments as after
Returns(fn, a, after, r) ==
  /\ called' = fn
  /\ args' = a
  /\ argsAfter' = after
  /\ ret' = r
  /\ UNCHANGED notAnalytics

\* A date of the calendar is the number of its day, day 1 being the first
\* day of the year; new Date(date).getTime() is its midnight in milliseconds.
Days == 1..MaxDays
GetTime(date) == date * 86400000

\* ContributionDay[] with distinct dates, in any order
ContributionLists ==
  UNION {{c \in [1..n -> [date : Days, count : 0..MaxCount]] :
            \A i, j \in 1..n : c[i].date = c[j].date => i = j} : n \in 0..MaxDays}

\* [...contributions].sort((a, b) => time(a.date) - time(b.date)): the sort
\* is stable, so an entry comes after those with a smaller time and those
\* with the same time and a smaller index
SortByDateKeepsOrder(contributions) == contributions
SortByDate(contributions) ==
  LET n == Len(contributions)
      Before(j, i) ==
        \/ GetTime(contributions[j].date) < GetTime(contributions[i].date)
        \/ GetTime(contributions[j].date) = GetTime(contributions[i].date) /\ j < i
      Position(i) == 1 + Cardinality({j \in 1..n : Before(j, i)})
  IN [k \in 1..n |-> contributions[CHOOSE i \in 1..n : Position(i) = k]]

\* calculateStreak: the two loops over the sorted copy
CalculateStreak(contributions) ==
  LET sorted == SortByDate(contributions)
      n == Len(sorted)
      forward[i \in 0..n] ==
        IF i = 0 THEN [tempStreak |-> 0, longestStreak |-> 0]
        ELSE LET prev == forward[i - 1]
             IN IF sorted[i].count > 0
                THEN [tempStreak |-> prev.tempStreak + 1,
                      longestStreak |-> IF prev.longestStreak > prev.tempStreak + 1
                                        THEN prev.longestStreak ELSE prev.tempStreak + 1]
                ELSE [tempStreak |-> 0, longestStreak |-> prev.longestStreak]
      backward[i \in 1..(n + 1)] ==
        IF i = n + 1 THEN [currentStreak |-> 0, broke |-> FALSE]
        ELSE LET next == backward[i + 1]
             IN IF next.broke THEN next
                ELSE IF sorted[i].count > 0
                     THEN [currentStreak |-> next.currentStreak + 1, broke |-> FALSE]
                     ELSE [currentStreak |-> next.currentStreak, broke |-> TRUE]
  IN [longest |-> forward[n].longestStreak, current |-> backward[1].currentStreak]

CalculateStreakCall ==
  /\ called = "none"
  /\ \E contributions \in ContributionLists :
       LET a == [args EXCEPT !.contributions = contributions]
       IN Returns("calculateStreak", a, a,
                  [ret EXCEPT !.streak = CalculateStreak(contributions)])

\* languages calculateTopLanguages returns at most
TopLanguages == 5

\* { [key: string]: number } as the sequence of its values in the order of
\* Object.entries, language i being the i-th key; both clients add up
\* positive numbers only
LanguageStats == UNION {[1..n -> 1..MaxBytes] : n \in 0..MaxLanguages}

\* .sort((a, b) => b.bytes - a.bytes): stable, larger bytes first
SortByBytesKeepsOrder(languages) == languages
SortByBytes(languages) ==
  LET n == Len(languages)
      Before(j, i) ==
        \/ languages[j].bytes > languages[i].bytes
        \/ languages[j].bytes = languages[i].bytes /\ j < i
      Position(i) == 1 + Cardinality({j \in 1..n : Before(j, i)})
  IN [k \in 1..n |-> languages[CHOOSE i \in 1..n : Position(i) = k]]

\* calculateTopLanguages.  (bytes / total) * 100 is kept as the exact
\* fraction num / den; den = 0 stands for the NaN of 0 / 0.
CalculateTopLanguages(languageStats) ==
  LET n == Len(languageStats)
      sum[i \in 0..n] == IF i = 0 THEN 0 ELSE sum[i - 1] + languageStats[i]
      total == sum[n]
      languages == SortByBytes([i \in 1..n |->
                     [name |-> i, bytes |-> languageStats[i],
                      percentage |-> [num |-> languageStats[i] * 100, den |-> total]]])
  IN SubSeq(languages, 1, IF n < TopLanguages THEN n ELSE TopLanguages)

CalculateTopLanguagesCall ==
  /\ called = "none"
  /\ \E languageStats \in LanguageStats :
       LET a == [args EXCEPT !.languageStats = languageStats]
       IN Returns("calculateTopLanguages", a, a,
                  [ret EXCEPT !.topLanguages = CalculateTopLanguages(languageStats)])

\* new Array(24): the hour buckets
HoursOfDay == 24

\* The author date of a commit is the number of its hour, counted from a
\* local midnight; new Date(date).getHours() is its hour of the day.
GetHours(date) == date % HoursOfDay

\* Commit[]: of a commit, the author date and the repository field, <<name>>
\* or <<>> for a commit that has none
CommitsOf(dates, repositories) ==
  UNION {[1..n -> [date : dates, repository : repositories]] : n \in 0..MaxCommits}

CommitLists == CommitsOf(0..(HoursOfDay - 1), {<<>>})

\* array.indexOf(value): the first index (from 0) that holds the value
LastIndexOf(array, value) ==
  CHOOSE i \in DOMAIN array : array[i] = value /\ \A j \in DOMAIN array : array[j] = value => j <= i
IndexOf(array, value) ==
  CHOOSE i \in DOMAIN array : array[i] = value /\ \A j \in DOMAIN array : array[j] = value => i <= j

\* calculatePeakHour
CalculatePeakHour(commits) ==
  LET hourCounts == [h \in 0..(HoursOfDay - 1) |->
                       Cardinality({i \in 1..Len(commits) : GetHours(commits[i].date) = h})]
      maxCount == CHOOSE m \in {hourCounts[h] : h \in DOMAIN hourCounts} :
                    \A h \in DOMAIN hourCounts : hourCounts[h] <= m
  IN IndexOf(hourCounts, maxCount)

CalculatePeakHourCall ==
  /\ called = "none"
  /\ \E commits \in CommitLists :
       LET a == [args EXCEPT !.commits = commits]
       IN Returns("calculatePeakHour", a, a,
                  [ret EXCEPT !.peakHour = CalculatePeakHour(commits)])

\* new Date(date).getDay(), 0 for Sunday.  A date 'YYYY-MM-DD' is parsed as
\* midnight UTC and getDay() gives the day of the week of that instant in
\* the local time zone: the day before for a zone west of UTC
\* (utcOffset < 0).  Day 1 is 1 January 2025, a Wednesday.
GetDay(date, utcOffset) ==
  LET utcDay == (date + 2) % 7
  IN IF utcOffset < 0 THEN (utcDay + 6) % 7 ELSE utcDay

\* determineArchetype in a process whose time zone is utcOffset hours from
\* UTC; weekendCommits > contributions.length * 0.4 is compared in fifths
DetermineArchetype(peakHour, totalCommits, totalPRs, contributions, utcOffset) ==
  LET weekendCommits ==
        Cardinality({i \in 1..Len(contributions) :
                       /\ GetDay(contributions[i].date, utcOffset) \in {0, 6}
                       /\ contributions[i].count > 0})
  IN IF peakHour >= 2 /\ peakHour <= 5 THEN "The Midnight Warrior"
     ELSE IF peakHour >= 5 /\ peakHour <= 9 THEN "The Early Bird"
     ELSE IF 5 * weekendCommits > 2 * Len(contributions) THEN "The Weekend Warrior"
     ELSE IF totalPRs > 50 THEN "The Merge Master"
     ELSE "The Consistent Coder"

\* getContributionCalendar pushes one entry for every day of every week of
\* the calendar, `day.contributionCount || 0` for its count: a day without
\* activity has an entry with count 0.  WeekendYear is the calendar of the
\* 365 days of 2025 with one contribution on every Saturday and Sunday.
YearLength == 52 * 7 + 1
WeekendYear ==
  [d \in 1..YearLength |-> [date |-> d, count |-> IF (d + 2) % 7 \in {0, 6} THEN 1 ELSE 0]]

\* the contributions are those of a calendar, in date order
DetermineArchetypeCall ==
  /\ called = "none"
  /\ \E peakHour \in 0..(HoursOfDay - 1), totalCommits \in {0, 5000}, totalPRs \in {50, 51},
        utcOffset \in {-5, 0, 5},
        contributions \in {c \in ContributionLists :
                             \A i \in 1..(Len(c) - 1) : c[i].date < c[i + 1].date}
                          \cup {WeekendYear} :
       LET a == [args EXCEPT !.peakHour = peakHour, !.totalCommits = totalCommits,
                             !.totalPRs = totalPRs, !.contributions = contributions,
                             !.utcOffset = utcOffset]
       IN Returns("determineArchetype", a, a,
                  [ret EXCEPT !.archetype =
                     DetermineArchetype(peakHour, totalCommits, totalPRs, contributions,
                                        utcOffset)])

\* A field of Partial<WrappedStats> is <<>> when it is missing and <<v>>
\* when it has the value v.  (field || 0) and (field || []) give 0 and the
\* empty list for a missing field (and 0 for the value 0).
OrDefault(field, default) == IF field = <<>> THEN default ELSE field[1]

\* allAchievements of calculateAchievements with the unlocked flags
AllAchievements(stats) ==
  LET longestStreak == OrDefault(stats.longestStreak, 0)
      totalCommits == OrDefault(stats.totalCommits, 0)
      totalStars == OrDefault(stats.totalStars, 0)
      totalPRs == OrDefault(stats.totalPRs, 0)
      peakHour == OrDefault(stats.peakHour, 0)
      A(id, rarity, unlocked) == [id |-> id, rarity |-> rarity, unlocked |-> unlocked]
  IN << A("legend", "mythic", longestStreak >= 365),
        A("ultra-prolific", "mythic", totalCommits >= 5000),
        A("viral-sensation", "mythic", totalStars >= 10000),
        A("century-club", "legendary", longestStreak >= 100),
        A("commit-machine", "legendary", totalCommits >= 1000),
        A("super-star", "legendary", totalStars >= 1000),
        A("half-year-streak", "epic", longestStreak >= 180),
        A("pr-champion", "epic", totalPRs >= 200),
        A("mega-productive", "epic", totalCommits >= 2500),
        A("celebrity", "epic", totalStars >= 500),
        A("night-owl", "rare", peakHour >= 0 /\ peakHour <= 5),
        A("pr-hero", "rare", totalPRs >= 100),
        A("polyglot", "rare", Len(OrDefault(stats.topLanguages, <<>>)) >= 5),
        A("popular", "rare", totalStars >= 100),
        A("prolific", "rare", totalCommits >= 500),
        A("getting-started", "common", totalCommits > 0),
        A("consistent", "common", longestStreak >= 30),
        A("active", "common", totalCommits >= 100),
        A("collaborator", "common", totalPRs >= 20),
        A("noticed", "common", totalStars >= 10) >>

\* calculateAchievements: allAchievements.filter((a) => a.unlocked)
CalculateAchievementsUnfiltered(stats) == AllAchievements(stats)
CalculateAchievements(stats) ==
  LET all == AllAchievements(stats)
      kept[i \in 0..Len(all)] ==
        IF i = 0 THEN <<>>
        ELSE IF all[i].unlocked THEN Append(kept[i - 1], all[i]) ELSE kept[i - 1]
  IN kept[Len(all)]

\* each statistic is missing, below its lowest threshold or at a threshold
CalculateAchievementsCall ==
  /\ called = "none"
  /\ \E longestStreak \in {<<>>, <<29>>, <<30>>, <<100>>, <<180>>, <<365>>},
        totalCommits \in {<<>>, <<0>>, <<1>>, <<100>>, <<500>>, <<1000>>, <<2500>>, <<5000>>},
        totalStars \in {<<>>, <<9>>, <<10>>, <<100>>, <<500>>, <<1000>>, <<10000>>},
        totalPRs \in {<<>>, <<19>>, <<20>>, <<100>>, <<200>>},
        peakHour \in {<<>>, <<0>>, <<5>>, <<6>>},
        topLanguages \in {<<>>, << <<1, 2, 3, 4>> >>, << <<1, 2, 3, 4, 5>> >>} :
       LET stats == [longestStreak |-> longestStreak, totalCommits |-> totalCommits,
                     totalStars |-> totalStars, totalPRs |-> totalPRs,
                     peakHour |-> peakHour, topLanguages |-> topLanguages]
           a == [args EXCEPT !.stats = stats]
       IN Returns("calculateAchievements", a, a,
                  [ret EXCEPT !.achievements = CalculateAchievements(stats)])

\* Repository[]: of a repository, the name and the star count; a user has
\* no two repositories of one name
RepoNames == {"a", "b"}

RepoLists ==
  UNION {{repos \in [1..n -> [name : RepoNames, stargazers_count : 0..MaxStars]] :
            \A i, j \in 1..n : repos[i].name = repos[j].name => i = j} :
           n \in 0..Cardinality(RepoNames)}

\* The commits of the REST client are the items of repos.listCommits, which
\* have no repository field; those of the GraphQL client carry the name of
\* the repository of commitContributionsByRepository, which need not be one
\* of the user's repositories.
ClientCommits ==
  CommitsOf({0}, {<<>>}) \cup CommitsOf({0}, {<<name>> : name \in RepoNames \cup {"upstream"}})

\* findMostActiveRepo.  The Map is walked in insertion order and only a
\* strictly larger count replaces the candidate.
FindMostActiveRepo(commits, repos) ==
  IF Len(repos) = 0 THEN "N/A"
  ELSE IF Len(commits) = 0 THEN repos[1].name
  ELSE LET repoName(i) == OrDefault(commits[i].repository, "unknown")
           keys == {repoName(i) : i \in 1..Len(commits)}
           count(repo) == Cardinality({i \in 1..Len(commits) : repoName(i) = repo})
           inserted(repo) == CHOOSE i \in 1..Len(commits) :
                               /\ repoName(i) = repo
                               /\ \A j \in 1..Len(commits) : repoName(j) = repo => i <= j
       IN CHOOSE repo \in keys :
            \A other \in keys :
              \/ count(other) < count(repo)
              \/ count(other) = count(repo) /\ inserted(repo) <= inserted(other)

FindMostActiveRepoCall ==
  /\ called = "none"
  /\ \E commits \in ClientCommits, repos \in RepoLists :
       LET a == [args EXCEPT !.commits = commits, !.repos = repos]
       IN Returns("findMostActiveRepo", a, a,
                  [ret EXCEPT !.mostActiveRepo = FindMostActiveRepo(commits, repos)])

\* repos.sort((a, b) => b.stargazers_count - a.stargazers_count): stable,
\* more stars first
SortByStars(repos) ==
  LET n == Len(repos)
      Before(j, i) ==
        \/ repos[j].stargazers_count > repos[i].stargazers_count
        \/ repos[j].stargazers_count = repos[i].stargazers_count /\ j < i
      Position(i) == 1 + Cardinality({j \in 1..n : Before(j, i)})
  IN [k \in 1..n |-> repos[CHOOSE i \in 1..n : Position(i) = k]]

\* topRepos: .slice(0, 5)
TopRepos == 5

\* generateWrappedStats without an accurate commit count, in a process whose
\* time zone is utcOffset hours from UTC.  Array.prototype.sort sorts the
\* array it is called on and returns that array: repos is the array of the
\* caller.
GenerateWrappedStatsCall ==
  /\ called = "none"
  /\ \E commits \in {c \in ClientCommits : Len(c) <= 1}, repos \in RepoLists,
        languageStats \in {l \in LanguageStats : Len(l) <= 1},
        contributions \in {c \in ContributionLists : Len(c) <= 1},
        totalPRs \in {0, 51}, utcOffset \in {-5, 0} :
       LET streaks == CalculateStreak(contributions)
           topLanguages == CalculateTopLanguages(languageStats)
           peakHour == CalculatePeakHour(commits)
           mostActiveRepo == FindMostActiveRepo(commits, repos)
           totalCommits == Len(commits)
           sum[i \in 0..Len(repos)] ==
             IF i = 0 THEN 0 ELSE sum[i - 1] + repos[i].stargazers_count
           totalStars == sum[Len(repos)]
           sorted == SortByStars(repos)
           topRepos == SubSeq(sorted, 1, IF Len(sorted) < TopRepos THEN Len(sorted)
                                                                  ELSE TopRepos)
           stats == [longestStreak |-> <<streaks.longest>>,
                     totalCommits |-> <<totalCommits>>, totalStars |-> <<totalStars>>,
                     totalPRs |-> <<totalPRs>>, peakHour |-> <<peakHour>>,
                     topLanguages |-> <<topLanguages>>]
           archetype == DetermineArchetype(peakHour, totalCommits, totalPRs,
                                           contributions, utcOffset)
           a == [args EXCEPT !.commits = commits, !.repos = repos,
                             !.languageStats = languageStats,
                             !.contributions = contributions,
                             !.totalPRs = totalPRs, !.utcOffset = utcOffset]
       IN Returns("generateWrappedStats", a, [a EXCEPT !.repos = sorted],
                  [ret EXCEPT !.streak = streaks, !.topLanguages = topLanguages,
                              !.peakHour = peakHour, !.mostActiveRepo = mostActiveRepo,
                              !.totalStars = totalStars, !.topRepos = topRepos,
                              !.archetype = archetype,
                              !.achievements = CalculateAchievements(stats)])

\* TIER_THRESHOLDS
PRIME == 1000
MASTER == 3000

\* calculateScore; the statistics are counts, and Math.floor of a whole
\* number is that number
CalculateScoreUnweighted(stats) ==
  stats.totalCommits + stats.totalPRs + stats.totalRepos + stats.totalStars
    + stats.longestStreak + stats.currentStreak
CalculateScore(stats) ==
  (stats.totalCommits * 1) + (stats.totalPRs * 5) + (stats.totalRepos * 2)
    + (stats.totalStars * 3) + (stats.longestStreak * 10) + (stats.currentStreak * 8)

\* determineTier
DetermineTier(score) ==
  IF score >= MASTER THEN "master"
  ELSE IF score >= PRIME THEN "prime"
  ELSE "origin"

\* new PlaywrightExporter(stats): the score and the tier of the card.  The
\* current streak is one of the streaks the longest is the maximum of.
PlaywrightExporterConstructor ==
  /\ called = "none"
  /\ \E totalCommits \in {0, 1, 999, 1000, 2999, 3000}, totalPRs \in {0, 1, 200},
        totalRepos \in {0, 1}, totalStars \in {0, 1, 333},
        longestStreak \in {0, 1, 125}, currentStreak \in {0, 1, 125} :
       /\ currentStreak <= longestStreak
       /\ LET stats == [totalCommits |-> totalCommits, totalPRs |-> totalPRs,
                        totalRepos |-> totalRepos, totalStars |-> totalStars,
                        longestStreak |-> longestStreak,
                        currentStreak |-> currentStreak]
              a == [args EXCEPT !.wrappedStats = stats]
              score == CalculateScore(stats)
          IN Returns("PlaywrightExporter", a, a,
                     [ret EXCEPT !.score = score, !.tier = DetermineTier(score)])

AnalyticsNext ==
  \/ CalculateStreakCall
  \/ CalculatePeakHourCall
  \/ DetermineArchetypeCall
  \/ CalculateAchievementsCall
  \/ CalculateTopLanguagesCall
  \/ FindMostActiveRepoCall
  \/ GenerateWrappedStatsCall
  \/ PlaywrightExporterConstructor

(***************************************************************************)
(* One call of GitHubClient.getRepositories or getCommitsForYear           *)
(* (src/github.ts), the repositories and commits kept one by one.          *)
(***************************************************************************)
\* per_page of listForUser
PerPage == 100

\* The public repositories of the user are numbered 1, 2, ... in the order
\* of sort: 'updated'; page p of listForUser holds the next PerPage of the n.
PageOf(n, p) ==
  LET first == (p - 1) * PerPage + 1
      last == IF p * PerPage < n THEN p * PerPage ELSE n
  IN [i \in 1..(IF last < first THEN 0 ELSE last - first + 1) |-> first + i - 1]

\* numbers of repositories a user can have, around the limits of the client
UserRepoCounts ==
  {0, 1, RecentRepos, RecentRepos + 1, PerPage, PerPage + 1,
   MaxRepoPages * PerPage - 1, MaxRepoPages * PerPage, MaxRepoPages * PerPage + 1,
   (MaxRepoPages + 1) * PerPage + 1}

ClientInit ==
  /\ method = "none"
  /\ clientPc = "idle"
  /\ userRepos = 0
  /\ listPage = 0
  /\ repoList = <<>>
  /\ loopIdx = 0
  /\ commitList = <<>>
  /\ pageLog = <<>>
  /\ listed = <<>>
  /\ clientError = NoMsg

\* the method m is called for a user with n repositories: page = 1 and the
\* first listForUser request is sent
ClientCall(m, n) ==
  /\ method' = m
  /\ userRepos' = n
  /\ clientPc' = "pages"
  /\ listPage' = 1
  /\ UNCHANGED <<repoList, loopIdx, commitList, pageLog, listed, clientError>>
  /\ UNCHANGED notClient

GetRepositoriesCall ==
  /\ clientPc = "idle"
  /\ \E n \in UserRepoCounts : ClientCall("getRepositories", n)

\* getCommitsForYear(2025), a year that is not in the future, starts with
\* this.getRepositories()
GetCommitsForYearCall ==
  /\ clientPc = "idle"
  /\ \E n \in {0, 1, RecentRepos - 1, RecentRepos + 1} : ClientCall("getCommitsForYear", n)

\* while (hasMore && page <= 10), for hasMore true
PageInLoopUncapped(p) == TRUE
PageInLoop(p) == p <= MaxRepoPages

\* repos.slice(0, 10)
WholeList(repos) == repos
RecentReposOf(repos) ==
  SubSeq(repos, 1, IF Len(repos) < RecentRepos THEN Len(repos) ELSE RecentRepos)

\* octokit.repos.listForUser answers the request for page listPage; an
\* error goes through the catch block, an empty page ends the loop and so
\* does page 10.  After the loop getRepositories throws or returns repos,
\* of which getCommitsForYear keeps recentRepos for its loop.
ListForUserResponse ==
  /\ clientPc = "pages"
  /\ \E resp \in {Ok(Len(PageOf(userRepos, listPage))), RateLimited, ServerError} :
       /\ pageLog' = Append(pageLog, IF resp.status = 200 THEN resp.n ELSE -1)
       /\ IF resp.status # 200
          THEN /\ clientPc' = "threw"
               /\ clientError' = GetRepositoriesError(resp)
               /\ UNCHANGED <<listPage, repoList, loopIdx>>
          ELSE LET repos == IF resp.n = 0 THEN repoList
                            ELSE repoList \o PageOf(userRepos, listPage)
                   nextPage == IF resp.n = 0 THEN listPage ELSE listPage + 1
               IN /\ listPage' = nextPage
                  /\ IF resp.n # 0 /\ PageInLoop(nextPage)
                     THEN /\ repoList' = repos
                          /\ UNCHANGED <<clientPc, clientError, loopIdx>>
                     ELSE IF Len(repos) = 0
                     THEN /\ clientPc' = "threw"
                          /\ clientError' = GetRepositoriesError(
                                         [status |-> 0, n |-> 0, text |-> NoReposMsg.text])
                          /\ UNCHANGED <<repoList, loopIdx>>
                     ELSE IF method = "getRepositories"
                     THEN /\ clientPc' = "returned"
                          /\ repoList' = repos
                          /\ UNCHANGED <<clientError, loopIdx>>
                     ELSE /\ clientPc' = "perRepo"
                          /\ repoList' = RecentReposOf(repos)
                          /\ loopIdx' = 1
                          /\ UNCHANGED clientError
  /\ UNCHANGED <<method, userRepos, commitList, listed>>
  /\ UNCHANGED notClient

\* octokit.repos.listCommits answers for the repository of the loop: its
\* commits are pushed, or the catch block goes on to the next repository;
\* after the last one the method throws when commits is empty
ListCommitsResponse ==
  /\ clientPc = "perRepo"
  /\ \E resp \in {Ok(0), Ok(MaxRepoCommits), NotFound} :
       LET repo == repoList[loopIdx]
           commits == IF resp.status = 200
                      THEN commitList \o [i \in 1..resp.n |-> [repo |-> repo, i |-> i]]
                      ELSE commitList
       IN /\ listed' = Append(listed, [repo |-> repo, status |-> resp.status, n |-> resp.n])
          /\ commitList' = commits
          /\ IF loopIdx < Len(repoList)
             THEN /\ loopIdx' = loopIdx + 1
                  /\ UNCHANGED <<clientPc, clientError>>
             ELSE /\ UNCHANGED loopIdx
                  /\ IF Len(commits) = 0
                     THEN /\ clientPc' = "threw"
                          /\ clientError' = NoCommitsMsg
                     ELSE /\ clientPc' = "returned"
                          /\ UNCHANGED clientError
  /\ UNCHANGED <<method, userRepos, listPage, repoList, pageLog>>
  /\ UNCHANGED notClient

ClientNext ==
  \/ GetRepositoriesCall
  \/ GetCommitsForYearCall
  \/ ListForUserResponse
  \/ ListCommitsResponse

(***************************************************************************)
(* One GitHubGraphQLClient (src/github-graphql-fixed.ts), its accessors    *)
(* called at any time, without a token.                                    *)
(***************************************************************************)
GraphQLClientInit ==
  /\ gqlCache = {}
  /\ inFlight = {}
  /\ succeeded = {}
  /\ lastCall = [year |-> DefaultYear, afterSuccess |-> FALSE, sent |-> FALSE]

\* An accessor is called: getUser, getRepositories and getLanguages call
\* getCompleteStats(), the others getCompleteStats(year).  It returns the
\* cached data if there is any and else sends its request.
AccessorCall ==
  /\ Cardinality(inFlight) < MaxInFlight
  /\ \E a \in AccessorSet, y \in Years :
       LET year == IF a \in {"getUser", "getRepositories", "getLanguages"}
                   THEN DefaultYear ELSE y
           call == [accessor |-> a, year |-> year]
       IN /\ call \notin inFlight
          /\ inFlight' = IF SendsRequest(gqlCache, year) THEN inFlight \cup {call}
                          ELSE inFlight
          /\ lastCall' = [year |-> year, afterSuccess |-> year \in succeeded,
                          sent |-> SendsRequest(gqlCache, year)]
  /\ UNCHANGED <<gqlCache, succeeded>>
  /\ UNCHANGED notGql

\* The GraphQL answer to a call arrives: getCompleteStats sets the cache
\* entry of the year and returns, or deletes it in the catch block and
\* throws.
AccessorResponse ==
  /\ \E call \in inFlight, resp \in GqlResponses(<<>>) :
       LET thrown == GetCompleteStats(resp)
       IN /\ gqlCache' = CacheAfter(gqlCache, call.year, thrown)
          /\ succeeded' = IF thrown = NoMsg THEN succeeded \cup {call.year} ELSE succeeded
          /\ inFlight' = inFlight \ {call}
  /\ UNCHANGED lastCall
  /\ UNCHANGED notGql

GraphQLClientNext ==
  \/ AccessorCall
  \/ AccessorResponse

(***************************************************************************)
(* Specifications.                                                         *)
(***************************************************************************)
vars == <<restVars, appVars, uiVars, workerVars, analyticsVars, restClientVars,
          gqlVars>>

Init ==
  /\ RestInit /\ AppInit /\ DisplayInit /\ WorkerInit /\ AnalyticsInit /\ ClientInit
  /\ GraphQLClientInit

\* the REST flow of src/index.tsx
SpecRest == Init /\ [][RestNext]_vars

\* GitHubWrappedApp over GitHubGraphQLClient
SpecApp == Init /\ [][AppNext]_vars

\* StatsDisplay, its export tasks and the browser installer
SpecDisplay == Init /\ [][DisplayNext]_vars

\* the parent process and the export worker
SpecWorker == Init /\ [][WorkerNext]_vars

\* one call of a function of StatsAnalyzer
SpecAnalytics == Init /\ [][AnalyticsNext]_vars

\* one call of getRepositories or getCommitsForYear of GitHubClient
SpecClient == Init /\ [][ClientNext]_vars

\* one GitHubGraphQLClient under calls of its accessors
SpecGraphQLClient == Init /\ [][GraphQLClientNext]_vars

(***************************************************************************)
(* Properties of the REST flow.                                            *)
(***************************************************************************)
FirstFetchOver == mainPc \in {"prompt", "retry", "ui", "exit"} /\ fetchOutcome # "none"

\* C1: once the first fetchAllData of main is over, a 403 answer to any of
\* its requests has made main enter promptTokenWithRetry.
C1_RateLimitEntersPrompt == (FirstFetchOver /\ saw403) => promptEntered

\* C3: promptTokenWithRetry returns only after a fetch that succeeded with
\* the trimmed answer just typed and returns that fetch's result; after a
\* failed fetch it waits for another answer (or the user has ended the
\* process with an empty answer); an empty answer ends the process with
\* exit code 0; a fetch that succeeds ends the loop with its data.
C3_PromptLoop ==
  /\ (mainPc = "ui" /\ promptEntered) =>
       /\ fetchOutcome = "ok"
       /\ \E a \in lastAnswer : Trim(a) # <<>> /\ result = [ok |-> TRUE, token |-> Trim(a)]
  /\ (promptEntered /\ fetchOutcome = "failed") =>
       \/ mainPc = "prompt"
       \/ mainPc = "exit" /\ exitCode = 0 /\ \E a \in lastAnswer : Trim(a) = <<>>
  /\ (\E a \in lastAnswer : Trim(a) = <<>>) => (mainPc = "exit" /\ exitCode = 0)
  /\ (promptEntered /\ mainPc = "exit") => (exitCode = 0 /\ \E a \in lastAnswer : Trim(a) = <<>>)
  /\ (promptEntered /\ fetchOutcome = "ok") => (mainPc = "ui" /\ result.ok)

\* A token GitHub rejects was tried in the loop, then one whose fetch succeeded.
C3_Witness ==
  /\ mainPc = "ui" /\ promptEntered
  /\ Includes(lastErr, "Bad credentials")
  /\ \E a \in lastAnswer : a # Trim(a)

(***************************************************************************)
(* Properties of GitHubWrappedApp and GitHubGraphQLClient.                 *)
(***************************************************************************)
\* C2: when the fetch started with a token typed into TokenInput has failed
\* because GitHub rejected the token, the app is in the token_request phase
\* and shows an error (it is not in the error phase).
C2_InvalidTokenAsksAgain ==
  (settled /\ tokenTyped /\ lastResp.kind = "bad credentials" /\ phase # "fetching_data")
    => (phase = "token_request" /\ appError # "none")

\* C4: a client sends at most one GraphQL request per year, also for the
\* nine accessor calls fetchData starts together.
C4_OneRequestPerYear == \A y \in Years : requests[y] <= 1

\* C5: getCompleteStats answers a not-found failure, a response without
\* contributionsCollection and a rate-limit failure each with its own
\* message; the three messages differ from each other and from the generic
\* 'Failed to fetch data' message, and none of them is thrown for a failure
\* of another kind.
C5_DistinctMessages ==
  /\ lastResp.kind = "not found" <=> lastThrown = UserNotFoundMsg
  /\ lastResp.kind = "authentication required" <=> lastThrown = AuthRequiredMsg
  /\ lastResp.kind = "rate limit" <=> lastThrown = RateLimitMsg
  /\ Cardinality({UserNotFoundMsg, AuthRequiredMsg, RateLimitMsg,
                  FailedToFetchMsg(lastResp)}) = 4

\* A 403 error without a rate-limit text was handled by getCompleteStats.
C5_Witness ==
  /\ lastResp.kind = "rate limit" /\ lastResp.status = 403 /\ lastResp.text = {}
  /\ lastThrown = RateLimitMsg
  /\ phase = "token_request"


(***************************************************************************)
(* StatsDisplay and BackgroundBrowserInstaller, under SpecDisplay.         *)
(***************************************************************************)
\* the slide number before the last key and the screen shown then
SlideBefore == lastShown[2]
SlideWasShown == lastShown[1] = "slide"

\* the order of the slides: export last, directly after comparison if present
ExportSlideLast ==
  /\ Slides[TotalSlides] = "export"
  /\ \A i \in 1..(TotalSlides - 1) : Slides[i] # "export"
  /\ hasComparison => Slides[TotalSlides - 1] = "comparison"

\* C6 as stated: currentSlide stays within 0..totalSlides-1; right arrow or
\* space moves forward by exactly one slide unless the last slide is current,
\* left arrow moves back by exactly one unless the first slide is current;
\* the export slide is the last slide, after the comparison slide if present.
C6_NavigationAlways ==
  /\ currentSlide \in 0..(TotalSlides - 1)
  /\ lastKey \in {"rightArrow", "space"} =>
       currentSlide = IF SlideBefore = TotalSlides - 1 THEN SlideBefore ELSE SlideBefore + 1
  /\ lastKey = "leftArrow" =>
       currentSlide = IF SlideBefore = 0 THEN SlideBefore ELSE SlideBefore - 1
  /\ ExportSlideLast

\* C6 amended: the same, for keys pressed while a slide is displayed (not the
\* processing, success or farewell screen, on which the slide does not move).
C6_NavigationWhileSlideShown ==
  /\ currentSlide \in 0..(TotalSlides - 1)
  /\ (SlideWasShown /\ lastKey \in {"rightArrow", "space"}) =>
       currentSlide = IF SlideBefore = TotalSlides - 1 THEN SlideBefore ELSE SlideBefore + 1
  /\ (SlideWasShown /\ lastKey = "leftArrow") =>
       currentSlide = IF SlideBefore = 0 THEN SlideBefore ELSE SlideBefore - 1
  /\ (lastKey # "none" /\ ~SlideWasShown) => currentSlide = SlideBefore
  /\ ExportSlideLast

\* left arrow pressed on the export slide of a display with a comparison
\* slide: the comparison slide is current
C6_Witness ==
  /\ hasComparison
  /\ lastKey = "leftArrow"
  /\ lastShown = <<"slide", ExportSlideIndex>>
  /\ Slides[currentSlide + 1] = "comparison"

\* C7: a key pressed on the export slide while no export is in progress
\* triggers the action the slide offers for it: E starts an export, T calls
\* onShare('twitter'), L calls onShare('linkedin'), Q and ESC call onExit.
C7_ExportSlideKeys ==
  (SlideWasShown /\ SlideBefore = ExportSlideIndex) =>
    /\ lastKey \in {"e", "E"} => lastEffect = "export"
    /\ lastKey \in {"t", "T"} => lastEffect = "share twitter"
    /\ lastKey \in {"l", "L"} => lastEffect = "share linkedin"
    /\ lastKey \in {"q", "Q"} => lastEffect = "exit"
    /\ lastKey = "escape" => lastEffect = "exit"

\* C8: after an export failed and until a key is pressed the error with the
\* '[R] Retry / [Q] Quit' prompt is displayed, and R pressed on that prompt
\* starts a new export.
C8_RetryPromptAfterFailure ==
  /\ lastEvent = "failed" => Shown[1] = "retry prompt"
  /\ (lastShown[1] = "retry prompt" /\ lastKey \in {"r", "R"}) => lastEffect = "export"

\* C10: whenever ensureReady() resolved, the installer status was 'ready'.
C10_EnsureReadyMeansReady == ensuredStatus \in {"none", "ready"}


(***************************************************************************)
(* The worker-based export, under SpecWorker.                              *)
(***************************************************************************)
\* C9: the input file is complete when the worker is started; a result with
\* success = true is in the output file only after the worker wrote the
\* image; the parent resolves, with the image path, exactly when the output
\* file it read reports success, and rejects otherwise.
C9_FileHandoff ==
  \A e \in Exports :
    /\ proc[e] # "none" => inputAtSpawn[e] = "complete"
    /\ (outputFile[e] = "success" \/ reportRead[e] = "success") =>
         (e \in imageBy /\ imageFile = "written")
    /\ exportPromise[e] = "resolved" <=> reportRead[e] = "success"
    /\ exportPromise[e] = "resolved" => settledWith[e] = "result.path"
    /\ (exportPromise[e] # "pending" /\ reportRead[e] \notin {"none", "success"}) =>
         exportPromise[e] = "rejected"

\* a PNG export is resolved and its temporary files are gone, while another
\* export was rejected on the failure its worker reported
C9_Witness ==
  \E e, f \in Exports :
    /\ exportPromise[e] = "resolved" /\ format[e] = "png" /\ e \in imageBy
    /\ inputFile[e] = "absent" /\ outputFile[e] = "absent"
    /\ exportPromise[f] = "rejected" /\ reportRead[f] = "failure"


(***************************************************************************)
(* Properties of StatsAnalyzer, under SpecAnalytics.                       *)
(***************************************************************************)
\* the entry of c that has k - 1 entries of c with an earlier date
C11_ByDate(c, k) ==
  c[CHOOSE i \in 1..Len(c) : Cardinality({j \in 1..Len(c) : c[j].date < c[i].date}) = k - 1]

\* 0 and the lengths of the runs of entries with count > 0 that are
\* consecutive in date order and end at one of the positions lasts
C11_Runs(c, lasts) ==
  {0} \cup {r[2] - r[1] + 1 : r \in
              {r \in (1..Len(c)) \X lasts :
                 r[1] <= r[2] /\ \A k \in r[1]..r[2] : C11_ByDate(c, k).count > 0}}

C11_Max(S) == CHOOSE m \in S : \A x \in S : x <= m

\* C11: calculateStreak returns as longest the length of the longest run of
\* entries with count > 0 that are consecutive in date order and as current
\* the length of such a run ending at the latest date, whatever the order of
\* the entries given, and current <= longest <= number of entries.
C11_Streak ==
  called = "calculateStreak" =>
    LET c == args.contributions
    IN /\ ret.streak.longest = C11_Max(C11_Runs(c, 1..Len(c)))
       /\ ret.streak.current = C11_Max(C11_Runs(c, {Len(c)}))
       /\ ret.streak.current <= ret.streak.longest /\ ret.streak.longest <= Len(c)

\* entries given out of date order: a run of one ends at the latest date
\* and a run of two lies before a day without contributions
C11_Witness ==
  /\ called = "calculateStreak"
  /\ Len(args.contributions) = 4
  /\ args.contributions[1].date > args.contributions[2].date
  /\ ret.streak = [longest |-> 2, current |-> 1]

\* the sum of f[1], ..., f[n]
C12_Sum(f, n) ==
  LET sum[i \in 0..n] == IF i = 0 THEN 0 ELSE sum[i - 1] + f[i]
  IN sum[n]

C13_InHour(c, h) == Cardinality({i \in 1..Len(c) : c[i].date % 24 = h})

\* C13: calculatePeakHour returns an hour of 0..23 with the largest number of
\* commits, the smallest one of these hours, and 0 for no commits.
C13_PeakHour ==
  called = "calculatePeakHour" =>
    /\ ret.peakHour \in 0..23
    /\ \A h \in 0..23 : C13_InHour(args.commits, h) <= C13_InHour(args.commits, ret.peakHour)
    /\ \A h \in 0..(ret.peakHour - 1) :
         C13_InHour(args.commits, h) < C13_InHour(args.commits, ret.peakHour)
    /\ Len(args.commits) = 0 => ret.peakHour = 0

\* two commits in one hour after one in an earlier hour: the later hour wins
C13_Witness ==
  /\ called = "calculatePeakHour"
  /\ Len(args.commits) = 3
  /\ args.commits[1].date < ret.peakHour
  /\ args.commits[2].date = ret.peakHour /\ args.commits[3].date = ret.peakHour

\* the entries of c on a Saturday or Sunday with count > 0 (day 1 is
\* Wednesday 1 January 2025, so days 4 and 5 are the first weekend)
C14_WeekendEntries(c) ==
  Cardinality({i \in 1..Len(c) : c[i].date % 7 \in {4, 5} /\ c[i].count > 0})

\* C14: determineArchetype returns the archetype of the first rule that
\* matches: peak hour in 2..5, peak hour in 5..9, Saturday/Sunday entries
\* with count > 0 above 40% of the entries, totalPRs > 50, otherwise The
\* Consistent Coder.
C14_Archetype ==
  called = "determineArchetype" =>
    ret.archetype =
      IF args.peakHour \in 2..5 THEN "The Midnight Warrior"
      ELSE IF args.peakHour \in 5..9 THEN "The Early Bird"
      ELSE IF 5 * C14_WeekendEntries(args.contributions) > 2 * Len(args.contributions)
           THEN "The Weekend Warrior"
      ELSE IF args.totalPRs > 50 THEN "The Merge Master"
      ELSE "The Consistent Coder"

\* the statistics with 0 (and the empty list) for every missing one
C15_Filled(stats) ==
  [f \in DOMAIN stats |->
     IF stats[f] # <<>> THEN stats[f] ELSE IF f = "topLanguages" THEN << <<>> >> ELSE <<0>>]

\* the place of a rarity in the catalog
C15_Rank(rarity) ==
  CHOOSE k \in 1..5 : <<"mythic", "legendary", "epic", "rare", "common">>[k] = rarity

\* C15: calculateAchievements returns exactly the achievements of the
\* 20-entry catalog whose threshold holds, a missing statistic counting as
\* 0, each with unlocked = true, none twice, in catalog order (mythic,
\* legendary, epic, rare, common).
C15_Achievements ==
  called = "calculateAchievements" =>
    LET catalog == AllAchievements(C15_Filled(args.stats))
        got == ret.achievements
        At(k) == CHOOSE i \in 1..Len(catalog) : catalog[i].id = got[k].id
    IN /\ Len(catalog) = 20
       /\ \A k \in 1..Len(got) :
            /\ got[k].unlocked
            /\ \E i \in 1..Len(catalog) : catalog[i] = got[k]
       /\ \A i \in 1..Len(catalog) :
            catalog[i].unlocked => \E k \in 1..Len(got) : got[k].id = catalog[i].id
       /\ \A k, l \in 1..Len(got) :
            k < l => /\ got[k].id # got[l].id
                     /\ At(k) < At(l)
                     /\ C15_Rank(got[k].rarity) <= C15_Rank(got[l].rarity)

\* only the peak hour and the languages are missing: night-owl is returned
\* for the missing peak hour, polyglot is not, and both a rare and a common
\* achievement of the commits are returned
C15_Witness ==
  /\ called = "calculateAchievements"
  /\ args.stats.peakHour = <<>> /\ args.stats.topLanguages = <<>>
  /\ args.stats.totalCommits = <<500>> /\ args.stats.longestStreak = <<29>>
  /\ args.stats.totalStars = <<9>> /\ args.stats.totalPRs = <<19>>
  /\ [k \in 1..Len(ret.achievements) |-> ret.achievements[k].id]
       = <<"night-owl", "prolific", "getting-started", "active">>

\* C16: generateWrappedStats leaves its arguments unchanged: after the call
\* the repos array, the commits, the contributions and the language
\* statistics have the same elements in the same order as before the call.
C16_ArgumentsUnchanged ==
  called = "generateWrappedStats" =>
    /\ argsAfter.repos = args.repos
    /\ argsAfter.commits = args.commits
    /\ argsAfter.contributions = args.contributions
    /\ argsAfter.languageStats = args.languageStats

C17_Names == {args.repos[i].name : i \in 1..Len(args.repos)}

C17_Count(repo) ==
  Cardinality({i \in 1..Len(args.commits) : args.commits[i].repository = <<repo>>})

\* C17: findMostActiveRepo returns 'N/A' when repos is empty, and otherwise
\* the name of a repository of repos: the first one when there are no
\* commits, and else one that no repository of repos exceeds in commits,
\* whichever client the commits come from.
C17_MostActiveRepo ==
  called = "findMostActiveRepo" =>
    IF args.repos = <<>> THEN ret.mostActiveRepo = "N/A"
    ELSE /\ ret.mostActiveRepo \in C17_Names
         /\ args.commits = <<>> => ret.mostActiveRepo = args.repos[1].name
         /\ \A repo \in C17_Names : C17_Count(repo) <= C17_Count(ret.mostActiveRepo)

C18_Rank(tier) == CASE tier = "origin" -> 1 [] tier = "prime" -> 2 [] tier = "master" -> 3

\* the statistics of the call with one of the six raised
C18_Raised ==
  LET stats == args.wrappedStats
  IN UNION {{[stats EXCEPT !.totalCommits = @ + by], [stats EXCEPT !.totalPRs = @ + by],
             [stats EXCEPT !.totalRepos = @ + by], [stats EXCEPT !.totalStars = @ + by],
             [stats EXCEPT !.longestStreak = @ + by],
             [stats EXCEPT !.currentStreak = @ + by]} : by \in {1, 100, 3000}}

\* C18: the score is totalCommits + 5 totalPRs + 2 totalRepos + 3 totalStars
\* + 10 longestStreak + 8 currentStreak; the tier is origin exactly when the
\* score is below 1000, prime exactly from 1000 up to 2999 and master
\* exactly from 3000 on, so every score has one tier; and raising one of the
\* six statistics never lowers the tier.
C18_Tier ==
  called = "PlaywrightExporter" =>
    LET stats == args.wrappedStats
    IN /\ ret.score = stats.totalCommits + 5 * stats.totalPRs + 2 * stats.totalRepos
                        + 3 * stats.totalStars + 10 * stats.longestStreak
                        + 8 * stats.currentStreak
       /\ ret.tier \in {"origin", "prime", "master"}
       /\ ret.tier = "origin" <=> ret.score < 1000
       /\ ret.tier = "prime" <=> (1000 <= ret.score /\ ret.score < 3000)
       /\ ret.tier = "master" <=> ret.score >= 3000
       /\ \A raised \in C18_Raised :
            C18_Rank(DetermineTier(CalculateScore(raised))) >= C18_Rank(ret.tier)

\* a card that reaches the master tier exactly, by several statistics
C18_Witness ==
  /\ called = "PlaywrightExporter"
  /\ ret.score = 3000
  /\ ret.tier = "master"
  /\ args.wrappedStats.totalCommits = 999
  /\ args.wrappedStats.totalPRs = 200
  /\ args.wrappedStats.totalStars = 333

(***************************************************************************)
(* Properties of GitHubClient, under SpecClient.                           *)
(***************************************************************************)
\* the repositories of pages 1 to p, page after page
C19_Pages(p) ==
  LET upTo[q \in 0..p] == IF q = 0 THEN <<>> ELSE upTo[q - 1] \o PageOf(userRepos, q)
  IN upTo[p]

\* C19: getRepositories sends at most 10 page requests, none after an empty
\* page; it returns the repositories of the pages it fetched in page order,
\* at most 1000; and it throws 'No public repositories found for this user.'
\* exactly when the first page is empty.
C19_GetRepositories ==
  /\ Len(pageLog) <= 10
  /\ \A i \in 1..(Len(pageLog) - 1) : pageLog[i] > 0
  /\ (method = "getRepositories" /\ clientPc = "returned") =>
       /\ repoList = C19_Pages(Len(pageLog))
       /\ Len(repoList) <= 1000
  /\ (clientPc = "threw" /\ Includes(clientError, "No public repositories"))
       <=> (pageLog # <<>> /\ pageLog[1] = 0)

\* a user with more repositories than ten pages hold: ten full pages
C19_Witness ==
  /\ method = "getRepositories"
  /\ clientPc = "returned"
  /\ userRepos > 1000
  /\ Len(pageLog) = 10
  /\ Len(repoList) = 1000

\* the commits of the listings 1 to k that answered, listing after listing
C20_Commits(k) ==
  LET upTo[q \in 0..k] ==
        IF q = 0 THEN <<>>
        ELSE IF listed[q].status = 200
             THEN upTo[q - 1] \o [i \in 1..listed[q].n |-> [repo |-> listed[q].repo, i |-> i]]
             ELSE upTo[q - 1]
  IN upTo[k]

C20_LoopOver == clientPc \in {"returned", "threw"} /\ listed # <<>>

C21_OneExport ==
  /\ Len(exportTasks) <= 1
  /\ exportTasks # <<>> => Shown[1] = "processing"
  /\ (lastKey # "none" /\ lastShown[1] = "processing") =>
       /\ lastEffect = "none"
       /\ currentSlide = lastShown[2]
       /\ ~uiExited
       /\ Len(exportTasks) = 1

\* E is pressed again while the export it started is running
C21_Witness ==
  /\ lastKey \in {"e", "E"}
  /\ lastShown = <<"processing", ExportSlideIndex>>
  /\ exportTasks # <<>>
  /\ exportTasks[1] = "render"

(***************************************************************************)
(* More properties of GitHubWrappedApp, under SpecApp.                     *)
(***************************************************************************)
\* one step of the app: how the phase changes, and what happens to the
\* nine accessor calls while the phase stays fetching_data
C22_Step ==
  /\ phase' # phase =>
       \/ /\ phase = "username_input"
          /\ phase' = "fetching_data"
       \/ /\ phase = "fetching_data"
          /\ phase' = "stats_display"
          /\ pending' = {}
          /\ \E a \in AccessorSet : pending = {a} /\ AccessorThrows(a, lastResp') = NoMsg
       \/ /\ phase = "fetching_data"
          /\ phase' \in {"token_request", "error"}
          /\ \E a \in pending : AccessorThrows(a, lastResp') # NoMsg
       \/ /\ phase = "token_request"
          /\ phase' = "fetching_data"
          /\ appToken' # <<>>
          /\ tokenTyped'
  /\ (phase = "fetching_data" /\ phase' = "fetching_data") =>
       \/ pending' = pending
       \/ ~effectRan /\ pending = {} /\ pending' = AccessorSet
       \/ \E a \in pending :
            pending' = pending \ {a} /\ AccessorThrows(a, lastResp') = NoMsg

\* C22: the phase changes only from username_input to fetching_data, from
\* fetching_data to stats_display when the last of the nine accessor calls
\* of the fetch has succeeded like the eight before it, from fetching_data
\* to token_request or error when an accessor call fails, and from
\* token_request to fetching_data with a non-empty typed token; never from
\* error or stats_display.
C22_PhaseMoves == [][C22_Step]_vars

\* the statistics are shown after a fetch with a typed token
C22_Witness ==
  /\ phase = "stats_display"
  /\ tokenTyped
  /\ appToken # <<>>
  /\ pending = {}

\* appState
C23_AppState == <<phase, appToken, appError, message, loginHas403>>

\* one step of the app, seen from the fetches
C23_Step ==
  /\ fetchStarts' <= 1
  /\ (phase' = "fetching_data" /\ effectRan') => fetchStarts' = 1
  /\ phase' \in {"stats_display", "token_request", "error"} => fetchStarts' = 1
  /\ (fetchStarts' # fetchStarts /\ fetchStarts' # 0) =>
       /\ message \in {"Initializing...", "Validating token and fetching data..."}
       /\ pending = {}
  /\ cancelledCalls' < cancelledCalls => C23_AppState' = C23_AppState

\* C23: for each entry into fetching_data one fetch is started and no
\* second one, the progress messages of the fetch leaving the effect as
\* it is; and an answer to a call of a fetch whose effect was cleaned up
\* leaves the app state as it is.
C23_OneFetch == [][C23_Step]_vars

\* the second fetch of the app is under way while a call of the first one,
\* which failed, still awaits its answer
C23_Witness ==
  /\ phase = "fetching_data"
  /\ tokenTyped
  /\ fetchStarts = 1
  /\ message = "Fetching GitHub data..."
  /\ cancelledCalls > 0
  /\ pending # {}

(***************************************************************************)
(* Properties of GitHubGraphQLClient, under SpecGraphQLClient.             *)
(***************************************************************************)
\* C24: an accessor call that starts after a getCompleteStats call for its
\* year has succeeded is answered from the cache and sends no request,
\* whatever became of the other calls for that year that were in flight.
C24_CachedAfterSuccess == lastCall.afterSuccess => ~lastCall.sent

\* the entries of c with count > 0, and those of them dated a Saturday or
\* Sunday
C25_ActiveDays(c) == {i \in 1..Len(c) : c[i].count > 0}
C25_WeekendDays(c) == {i \in C25_ActiveDays(c) : (c[i].date + 2) % 7 \in {0, 6}}

\* C25: when the peak hour is outside 2..9 and more than 40% of the days
\* with activity of the contribution calendar are a Saturday or Sunday,
\* determineArchetype returns The Weekend Warrior; so it does for the
\* calendar of a whole year with activity on every weekend day and no other.
C25_WeekendWarrior ==
  (/\ called = "determineArchetype"
   /\ args.peakHour \notin 2..9
   /\ 5 * Cardinality(C25_WeekendDays(args.contributions))
        > 2 * Cardinality(C25_ActiveDays(args.contributions)))
  => ret.archetype = "The Weekend Warrior"

\* the same for a process at or east of UTC, where getDay() gives the day
\* of the week of the date itself
C25_WeekendWarriorEastOfUTC ==
  (called = "determineArchetype" /\ args.utcOffset >= 0) => C25_WeekendWarrior

====
